---- MODULE Spec2Model ----
(***************************************************************************)
(* A model of the tmux command-execution tooling of claude-code-tools:     *)
(*   - the marker protocol (claude_code_tools/tmux_execution_helpers.py),  *)
(*   - the local window controller, TmuxCLIController                      *)
(*     (claude_code_tools/tmux_cli_controller.py),                         *)
(*   - the idle detector, TmuxCLIController.wait_for_idle,                 *)
(*   - the execution engine execute(), whose code is not part of the       *)
(*     sources at hand and is modelled from its specification.             *)
(*                                                                         *)
(* Text is modelled as a sequence of one-character strings, with indices   *)
(* counted from 0 as in Python.  Every component has a specification of    *)
(* its own (SpecParse, SpecMarkers, SpecCtl, SpecIdle, SpecExec); the      *)
(* variables of the other components stay parked at their initial values.  *)
(***************************************************************************)
EXTENDS Integers, Sequences, FiniteSets, TLC

VARIABLES
    captured,        \* parse: the text captured from the pane
    parse_pc,        \* parse: "ready" before the call, "returned" after it
    parse_result,    \* parse: the dict parse_marked_output returned
    pid,             \* markers: os.getpid() of the calling process
    time_ns,         \* markers: the value time.time_ns() returns now
    issued,          \* markers: the marker pairs generated so far, in order
    windows,         \* tmux: the windows of the session, [id, index, name]
    next_id,         \* tmux: the id the next new window gets
    own_id,          \* tmux: the id of the window the caller's process runs in
    target_window,   \* controller: self.target_window
    last_op,         \* controller: the last call, its result and the tmux commands it issued
    now,             \* idle: the value time.time() returns now
    content,         \* idle: what capture_window returns now
    last_real_change,\* idle: the time at which content last changed
    wfi,             \* idle: the locals and the position of one wait_for_idle call
    ex,              \* execute: the locals and the position of the execute() call
    shell,           \* execute: the shell running in the target
    env_tmux,        \* facade: whether the environment variable TMUX is set
    sessions,        \* facade: the names of the sessions of the tmux server
    cli,             \* facade: the CLI object
    remote,          \* facade: the RemoteTmuxController the CLI object holds
    run,             \* round trip: one wrapped command from the shell to the parser
    flag_file,       \* hook: whether .claude_git_commit_warning.flag exists
    hook,            \* hook: the last call of check_git_commit_command and the count
    add_flags,       \* hook: the .claude_git_add_dir_<hash>.flag files that exist
    addhook,         \* hook: the last call of check_git_add_command
    subtask_flag,    \* hooks: whether .claude_in_subtask.flag exists
    running,         \* hooks: subtasks whose pretask hook has run and posttask hook has not
    last_flag_hook,  \* hooks: the latest of the pretask and posttask hooks to run
    fsz,             \* hooks: the last call of file_size_conditional_hook
    bash,            \* hooks: the last call of the unified bash hook
    search,          \* find-claude-session: one call of search_keywords_in_file
    race             \* hooks: concurrent hook invocations, where each one is

parseVars  == <<captured, parse_pc, parse_result>>
markerVars == <<pid, time_ns, issued>>
ctlVars    == <<windows, next_id, own_id, target_window, last_op>>
idleVars   == <<now, content, last_real_change, wfi>>
execVars   == <<ex, shell>>
facadeVars == <<env_tmux, sessions, cli, remote>>
runVars    == <<run>>
hookVars   == <<flag_file, hook>>
addVars    == <<add_flags, addhook>>
subtaskVars == <<subtask_flag, running, last_flag_hook, fsz>>
bashVars == <<bash>>
searchVars == <<search>>
raceVars == <<race>>

vars == <<captured, parse_pc, parse_result, pid, time_ns, issued,
          windows, next_id, own_id, target_window, last_op,
          now, content, last_real_change, wfi, ex, shell,
          env_tmux, sessions, cli, remote, run, flag_file, hook, add_flags, addhook, subtask_flag, running, last_flag_hook, fsz, bash, search, race>>

\* Python's None.  The code only ever tests an identifier, a target or a
\* result for truth, and None and "" are both false, so None is the empty text.
None == <<>>

(***************************************************************************)
(* Python string operations, on sequences.                                 *)
(***************************************************************************)
Min(S) == CHOOSE x \in S : \A y \in S : x <= y
Max(S) == CHOOSE x \in S : \A y \in S : x >= y

\* The 0-based positions at which sub occurs in s.
Occurrences(s, sub) ==
    {i \in 0..(Len(s) - Len(sub)) : SubSeq(s, i + 1, i + Len(sub)) = sub}

\* sub in s
Contains(s, sub) == Occurrences(s, sub) # {}

\* s.find(sub): the lowest position, or -1
Find(s, sub) == IF Occurrences(s, sub) = {} THEN -1 ELSE Min(Occurrences(s, sub))

\* s.rfind(sub): the highest position, or -1
RFind(s, sub) == IF Occurrences(s, sub) = {} THEN -1 ELSE Max(Occurrences(s, sub))

\* s[a:b] for 0 <= a, 0 <= b: empty when a >= b, clipped to the length of s
Slice(s, a, b) ==
    LET hi == IF b > Len(s) THEN Len(s) ELSE b
    IN  IF a >= hi THEN <<>> ELSE SubSeq(s, a + 1, hi)

\* s[a:]
SliceFrom(s, a) == Slice(s, a, Len(s))

\* s.rstrip('\n')
RECURSIVE RStripNewlines(_)
RStripNewlines(s) ==
    IF s # <<>> /\ s[Len(s)] = "\n" THEN RStripNewlines(SubSeq(s, 1, Len(s) - 1)) ELSE s

\* s.split('\n')[0]: the text before the first newline
FirstLine(s) ==
    IF Contains(s, <<"\n">>) THEN Slice(s, 0, Find(s, <<"\n">>)) ELSE s

\* s.split(':')[-1]: the text after the last colon
AfterLastColon(s) ==
    IF Contains(s, <<":">>) THEN SliceFrom(s, RFind(s, <<":">>) + 1) ELSE s

DecDigits == <<"0", "1", "2", "3", "4", "5", "6", "7", "8", "9">>
Digits == {DecDigits[i] : i \in 1..Len(DecDigits)}
DigitValue(c) == (CHOOSE i \in 1..Len(DecDigits) : DecDigits[i] = c) - 1

\* s.isdigit(), and int(s) succeeding: over the alphabets used here (no sign,
\* blank or underscore character) both mean a non-empty run of decimal digits
IsInt(s) == s # <<>> /\ \A i \in 1..Len(s) : s[i] \in Digits

\* str(n), n >= 0
RECURSIVE Str(_)
Str(n) == IF n < 10 THEN <<DecDigits[n + 1]>>
          ELSE Str(n \div 10) \o <<DecDigits[(n % 10) + 1]>>

\* s.startswith(prefix)
StartsWith(s, prefix) == Len(prefix) <= Len(s) /\ SubSeq(s, 1, Len(prefix)) = prefix

RECURSIVE IntValue(_)
IntValue(s) ==
    IF s = <<>> THEN 0
    ELSE 10 * IntValue(SubSeq(s, 1, Len(s) - 1)) + DigitValue(s[Len(s)])

(***************************************************************************)
(* parse_marked_output                                                     *)
(***************************************************************************)
MaxLen == 5            \* longest captured text

Chars == {"S", "E", ":", "0", "1", "x", "\n"}

\* The marker pair handed to parse_marked_output: one character each, so
\* that short captured texts hold every arrangement of the two markers.
StartMarker == <<"S">>
EndMarker == <<"E">>

Texts == UNION {[1..n -> Chars] : n \in 0..MaxLen}

ParseFailed(captured_output) == [output |-> captured_output, exit_code |-> -1]

\* The end of the output taken at the first occurrence of end + ":".
FirstEndIndex(captured_output, end_search) == Find(captured_output, end_search)

\* end_idx = captured_output.rfind(end_search)
EndIndex(captured_output, end_search) == RFind(captured_output, end_search)

parse_marked_output(captured_output, start_marker, end_marker) ==
    IF ~Contains(captured_output, start_marker) \/ ~Contains(captured_output, end_marker)
    THEN ParseFailed(captured_output)
    ELSE
      LET start_idx == Find(captured_output, start_marker)
          end_search == end_marker \o <<":">>
          end_idx == EndIndex(captured_output, end_search)
      IN  IF start_idx = -1 \/ end_idx = -1
          THEN ParseFailed(captured_output)
          ELSE
            LET after_start == start_idx + Len(start_marker)
                output_start ==
                    IF after_start < Len(captured_output)
                       /\ captured_output[after_start + 1] = "\n"
                    THEN after_start + 1 ELSE after_start
                output == RStripNewlines(Slice(captured_output, output_start, end_idx))
                end_marker_line == FirstLine(SliceFrom(captured_output, end_idx))
                exit_code_str == AfterLastColon(end_marker_line)
            IN  [output |-> output,
                 exit_code |-> IF IsInt(exit_code_str) THEN IntValue(exit_code_str) ELSE -1]

InitParseVars ==
    /\ captured \in Texts
    /\ parse_pc = "ready"
    /\ parse_result = ParseFailed(<<>>)

ParkedParseVars ==
    /\ captured = <<>>
    /\ parse_pc = "ready"
    /\ parse_result = ParseFailed(<<>>)

\* One call parse_marked_output(captured, start, end).
ParseCall ==
    /\ parse_pc = "ready"
    /\ parse_pc' = "returned"
    /\ parse_result' = parse_marked_output(captured, StartMarker, EndMarker)
    /\ UNCHANGED captured

(***************************************************************************)
(* generate_execution_markers                                              *)
(***************************************************************************)
MaxPid == 2            \* process ids 1..MaxPid
MaxClock == 3          \* the clock runs from 0 to MaxClock
MaxCalls == 3          \* marker generations in one process

\* f"__TMUX_EXEC_START_{pid}_{timestamp}__" and its END twin: the text is
\* determined by, and determines, the prefix, the pid and the timestamp.
generate_execution_markers(the_pid, timestamp) ==
    [start |-> <<"__TMUX_EXEC_START_", the_pid, timestamp, "__">>,
     end   |-> <<"__TMUX_EXEC_END_", the_pid, timestamp, "__">>]

InitMarkerVars ==
    /\ pid \in 1..MaxPid
    /\ time_ns = 0
    /\ issued = <<>>

ParkedMarkerVars ==
    /\ pid = 1
    /\ time_ns = 0
    /\ issued = <<>>

\* The clock time.time_ns() reads moves on by one unit of its resolution.
ClockTick ==
    /\ time_ns < MaxClock
    /\ time_ns' = time_ns + 1
    /\ UNCHANGED <<pid, issued>>

\* One call generate_execution_markers(): it reads the clock and the pid.
Generate ==
    /\ Len(issued) < MaxCalls
    /\ issued' = Append(issued, generate_execution_markers(pid, time_ns))
    /\ UNCHANGED <<pid, time_ns>>

(***************************************************************************)
(* The tmux server, as TmuxCLIController drives it through                 *)
(* _run_tmux_command.  A window is [id, index, name]; a window name is a   *)
(* text whose first character may be the whole prefix "tmux-cli-".         *)
(***************************************************************************)
MaxWindows == 4        \* window ids 0..MaxWindows-1 exist over a run

NoWindow == -1         \* tmux finds no window for a target

Session == <<"s">>     \* the session the caller is attached to
Prefix == <<"tmux-cli-">>

IdText(n) == <<"@">> \o Str(n)                 \* #{window_id}
Qualified(session, window) == session \o <<":">> \o window   \* f'{session}:{window}'

WindowById(id) == CHOOSE w \in windows : w.id = id
Alive(id) == \E w \in windows : w.id = id

\* tmux's lookup of the window part of a target in the session: a window
\* index first, then an exact window name, then the start of a window name;
\* a name that more than one window matches finds nothing.
TmuxFindInSession(window) ==
    LET byIndex == {w \in windows : IsInt(window) /\ w.index = IntValue(window)}
        byName == {w \in windows : w.name = window}
        byStart == {w \in windows : StartsWith(w.name, window)}
    IN  IF byIndex # {} THEN (CHOOSE w \in byIndex : TRUE).id
        ELSE IF byName # {}
             THEN IF Cardinality(byName) = 1 THEN (CHOOSE w \in byName : TRUE).id
                  ELSE NoWindow
        ELSE IF Cardinality(byStart) = 1 THEN (CHOOSE w \in byStart : TRUE).id
        ELSE NoWindow

\* tmux's lookup of a -t target: "@N" is a window id, "session:window" names
\* a window of that session, any other text a window of the current session.
TmuxFindWindow(target) ==
    IF target = <<>> THEN NoWindow
    ELSE IF target[1] = "@"
         THEN IF \E w \in windows : IdText(w.id) = target
              THEN (CHOOSE w \in windows : IdText(w.id) = target).id
              ELSE NoWindow
    ELSE IF Contains(target, <<":">>)
         THEN IF Slice(target, 0, Find(target, <<":">>)) = Session
              THEN TmuxFindInSession(SliceFrom(target, Find(target, <<":">>) + 1))
              ELSE NoWindow
    ELSE TmuxFindInSession(target)

\* tmux kill-window -t target: the windows left.
TmuxKillWindow(ws, target) == {w \in ws : w.id # TmuxFindWindow(target)}

\* The index tmux gives a new window: the lowest one not in use.
FreeIndex == Min({i \in 0..Cardinality(windows) : \A w \in windows : w.index # i})

\* self.session_name or self.get_current_session(): the controller of the
\* local mode is built without a session name and runs inside Session.
CurrentSession == Session

(***************************************************************************)
(* TmuxCLIController                                                       *)
(***************************************************************************)
\* The names given to create_window; None asks for a generated name.
CustomNames == {None, <<"a">>, Prefix \o <<"a">>}
\* The names generate_window_name makes from the clock and random.randint.
GeneratedNames == {Prefix \o <<"t1">>}
\* The names of the windows the user already has.
UserNames == {<<"main">>, <<"2">>, <<"b">>}

generate_window_name(custom_name, generated) ==
    IF custom_name # None
    THEN IF ~StartsWith(custom_name, Prefix) THEN Prefix \o custom_name ELSE custom_name
    ELSE generated

\* resolve_window_identifier returning the matched window's id, which the
\* loop reads and drops, in place of the session-qualified name.
resolve_returning_window_id(identifier) ==
    IF identifier = None THEN None
    ELSE IF identifier[1] = "@" THEN identifier
    ELSE IF Contains(identifier, <<":">>) THEN identifier
    ELSE IF CurrentSession = None THEN None
    ELSE IF \E w \in windows : w.name = identifier
         THEN IdText((CHOOSE w \in windows : w.name = identifier).id)
    ELSE IF IsInt(identifier) THEN Qualified(CurrentSession, identifier)
    ELSE None

resolve_window_identifier(identifier) ==
    IF identifier = None THEN None
    ELSE IF identifier[1] = "@" THEN identifier
    ELSE IF Contains(identifier, <<":">>) THEN identifier
    ELSE IF CurrentSession = None THEN None
    ELSE IF \E w \in windows : w.name = identifier
         THEN Qualified(CurrentSession, (CHOOSE w \in windows : w.name = identifier).name)
    ELSE IF IsInt(identifier) THEN Qualified(CurrentSession, identifier)
    ELSE None

TmuxCmd(cmd, target) == [cmd |-> cmd, target |-> target]

\* last_op: the call, its argument, what it returned, whether it raised,
\* the calls of _run_tmux_command it made, and the window its target
\* denoted when it was called.
Op(op, arg, ret, raised, cmds, denoted) ==
    [op |-> op, arg |-> arg, ret |-> ret, raised |-> raised, cmds |-> cmds,
     denoted |-> denoted]

\* The session at the start: the caller's own window, @0 at index 0, and up
\* to two more windows of the user.
InitWindow(n, name) == IF name = None THEN {} ELSE {[id |-> n, index |-> n, name |-> name]}

InitWindows ==
    {InitWindow(0, n0) \cup InitWindow(1, n1) \cup InitWindow(2, n2) :
        n0 \in {<<"main">>, Prefix \o <<"a">>},
        n1 \in (UserNames \ {<<"main">>}) \cup {None},
        n2 \in (UserNames \ {<<"main">>}) \cup {None}}

InitCtlVars ==
    /\ windows \in InitWindows
    /\ next_id = 3
    /\ own_id = 0
    /\ target_window = None
    /\ last_op = Op("none", None, None, FALSE, <<>>, NoWindow)

ParkedCtlVars ==
    /\ windows = {}
    /\ next_id = 0
    /\ own_id = 0
    /\ target_window = None
    /\ last_op = Op("none", None, None, FALSE, <<>>, NoWindow)

\* create_window forgetting the current target when tmux new-window fails.
CreateWindowLosingTarget(custom_name, generated, ok) ==
    LET name == generate_window_name(custom_name, generated)
        cmds == <<TmuxCmd("new-window", CurrentSession)>>
    IN  /\ ok => next_id < MaxWindows
        /\ IF ok
           THEN /\ windows' = windows \cup {[id |-> next_id, index |-> FreeIndex, name |-> name]}
                /\ next_id' = next_id + 1
                /\ target_window' = name
                /\ last_op' = Op("create_window", custom_name, name, FALSE, cmds, next_id)
           ELSE /\ last_op' = Op("create_window", custom_name, None, FALSE, cmds, NoWindow)
                /\ target_window' = None
                /\ UNCHANGED <<windows, next_id>>
        /\ UNCHANGED own_id

\* create_window(window_name=custom_name); tmux new-window succeeds or fails.
CreateWindow(custom_name, generated, ok) ==
    LET name == generate_window_name(custom_name, generated)
        cmds == <<TmuxCmd("new-window", CurrentSession)>>
    IN  /\ ok => next_id < MaxWindows
        /\ IF ok
           THEN /\ windows' = windows \cup {[id |-> next_id, index |-> FreeIndex, name |-> name]}
                /\ next_id' = next_id + 1
                /\ target_window' = name
                /\ last_op' = Op("create_window", custom_name, name, FALSE, cmds, next_id)
           ELSE /\ last_op' = Op("create_window", custom_name, None, FALSE, cmds, NoWindow)
                /\ UNCHANGED <<windows, next_id, target_window>>
        /\ UNCHANGED own_id

\* kill_window clearing the current target whatever it killed.
KillWindowClearingTarget(window_id) ==
    LET target == IF window_id # None THEN window_id ELSE target_window
        found == resolve_window_identifier(target)
        resolved == IF found = None THEN target ELSE found
    IN  IF target = None
        THEN /\ last_op' = Op("kill_window", window_id, None, TRUE, <<>>, NoWindow)
             /\ UNCHANGED <<windows, next_id, own_id, target_window>>
        ELSE /\ windows' = TmuxKillWindow(windows, resolved)
             /\ target_window' = None
             /\ last_op' = Op("kill_window", window_id, None, FALSE,
                              <<TmuxCmd("kill-window", resolved)>>, TmuxFindWindow(resolved))
             /\ UNCHANGED <<next_id, own_id>>

\* kill_window(window_id)
KillWindow(window_id) ==
    LET target == IF window_id # None THEN window_id ELSE target_window
        found == resolve_window_identifier(target)
        resolved == IF found = None THEN target ELSE found
    IN  IF target = None
        THEN /\ last_op' = Op("kill_window", window_id, None, TRUE, <<>>, NoWindow)
             /\ UNCHANGED <<windows, next_id, own_id, target_window>>
        ELSE /\ windows' = TmuxKillWindow(windows, resolved)
             /\ target_window' = IF target = target_window THEN None ELSE target_window
             /\ last_op' = Op("kill_window", window_id, None, FALSE,
                              <<TmuxCmd("kill-window", resolved)>>, TmuxFindWindow(resolved))
             /\ UNCHANGED <<next_id, own_id>>

\* The part send_keys_to_window and capture_window share: the target, the
\* ValueError without one, the resolution, then the tmux commands.
OnTarget(op, window_id, cmdNames) ==
    LET target == IF window_id # None THEN window_id ELSE target_window
        found == resolve_window_identifier(target)
        resolved == IF found = None THEN target ELSE found
    IN  /\ last_op' = IF target = None
                       THEN Op(op, window_id, None, TRUE, <<>>, NoWindow)
                       ELSE Op(op, window_id, None, FALSE,
                               [i \in 1..Len(cmdNames) |-> TmuxCmd(cmdNames[i], resolved)],
                               TmuxFindWindow(resolved))
        /\ UNCHANGED <<windows, next_id, own_id, target_window>>

\* send_keys_to_window(text, window_id, enter, delay_enter): the text and
\* the Enter key go in two send-keys commands when the Enter is delayed.
SendKeys(window_id, delayed) ==
    OnTarget("send_keys_to_window", window_id,
             IF delayed THEN <<"send-keys", "send-keys">> ELSE <<"send-keys">>)

\* capture_window(window_id, lines)
CaptureWindow(window_id) ==
    OnTarget("capture_window", window_id, <<"capture-pane">>)

\* CLI.interrupt and CLI.escape in local mode: a window name is resolved
\* and the call gives up when it does not resolve; without a window name
\* self.controller.target_window goes into the send-keys command as it is,
\* and subprocess.run raises TypeError when it is None.
SendKey(op, window_name) ==
    LET resolved == resolve_window_identifier(window_name)
    IN  /\ last_op' =
              IF window_name # None
              THEN IF resolved = None
                   THEN Op(op, window_name, None, FALSE, <<>>, NoWindow)
                   ELSE Op(op, window_name, None, FALSE,
                           <<TmuxCmd("send-keys", resolved)>>, TmuxFindWindow(resolved))
              ELSE Op(op, window_name, None, target_window = None,
                      <<TmuxCmd("send-keys", target_window)>>,
                      TmuxFindWindow(target_window))
        /\ UNCHANGED <<windows, next_id, own_id, target_window>>

Interrupt(window_name) == SendKey("interrupt", window_name)

Escape(window_name) == SendKey("escape", window_name)

\* list_windows(): the windows of the session in the order tmux lists them,
\* by window index.
RECURSIVE SortedByIndex(_)
SortedByIndex(ws) ==
    IF ws = {} THEN <<>>
    ELSE LET first == CHOOSE w \in ws : \A v \in ws : w.index <= v.index
         IN  <<first>> \o SortedByIndex(ws \ {first})

list_windows == SortedByIndex(windows)

\* [w for w in listed if w['name'].startswith('tmux-cli-')]
RECURSIVE WithPrefix(_)
WithPrefix(listed) ==
    IF listed = <<>> THEN <<>>
    ELSE (IF StartsWith(Head(listed).name, Prefix) THEN <<Head(listed)>> ELSE <<>>)
         \o WithPrefix(Tail(listed))

\* list_tmux_cli_windows without the test of the name.
list_every_window ==
    list_windows

\* list_tmux_cli_windows(): [w for w in all_windows if w['name'].startswith('tmux-cli-')]
list_tmux_cli_windows ==
    WithPrefix(list_windows)

\* cleanup_all_windows(): kill-window -t window['id'] for each listed window
CleanupAllWindows ==
    LET listed == list_tmux_cli_windows
        kills == [i \in 1..Len(listed) |-> TmuxCmd("kill-window", IdText(listed[i].id))]
        targets == {kills[i].target : i \in 1..Len(kills)}
    IN  /\ windows' = {w \in windows : \A t \in targets : TmuxFindWindow(t) # w.id}
        /\ last_op' = Op("cleanup_all_windows", None, None, FALSE,
                         <<TmuxCmd("list-windows", CurrentSession)>> \o kills, NoWindow)
        /\ UNCHANGED <<next_id, own_id, target_window>>

\* resolve_window_identifier(identifier), called on its own
ResolveCall(identifier) ==
    /\ last_op' = Op("resolve", identifier, resolve_window_identifier(identifier), FALSE,
                     IF identifier = None \/ identifier[1] = "@"
                        \/ Contains(identifier, <<":">>)
                     THEN <<>> ELSE <<TmuxCmd("list-windows", CurrentSession)>>,
                     TmuxFindWindow(resolve_window_identifier(identifier)))
    /\ UNCHANGED <<windows, next_id, own_id, target_window>>

\* The identifiers callers pass: nothing, names, indexes, window ids and
\* session-qualified addresses, of windows that exist and of windows that do not.
Identifiers ==
    LET names == UserNames \cup {Prefix \o <<"a">>, Prefix \o <<"t1">>}
        numbers == {Str(n) : n \in 0..2}
    IN  {None, <<"nonexistent">>, <<"invalid", ":", "format">>}
        \cup names \cup numbers
        \cup {IdText(n) : n \in {0, 1, MaxWindows - 1}}
        \cup {Qualified(Session, x) : x \in {<<"main">>, <<"1">>}}

\* The targets given to the operations that send keys or capture: nothing,
\* a window name, a name no window has, a window id.
Targets == {None, <<"b">>, <<"nonexistent">>, IdText(1)}

(***************************************************************************)
(* TmuxCLIController.wait_for_idle                                         *)
(* Time is counted in whole ticks.  It passes between any two statements   *)
(* (Tick), and the pane's content changes whenever the program running in  *)
(* it writes (ContentChange).                                              *)
(***************************************************************************)
MaxTime == 4               \* the clock runs from 0 to MaxTime
MaxIdleTime == 2           \* idle_time is 1..MaxIdleTime
MaxCheckInterval == 2      \* check_interval is 1..MaxCheckInterval
MaxTimeout == 2            \* timeout is None or 0..MaxTimeout

NoTimeout == -1            \* timeout=None

ContentValues == {"A", "B"}

\* hashlib.md5(content.encode()).hexdigest(): never the empty text
Md5(c) == <<"md5", c>>

\* `if timeout and ...`: None and 0 are both false
Truthy(timeout) == timeout # NoTimeout /\ timeout # 0

WfiIdle ==
    [pc |-> "idle", idle_time |-> 1, check_interval |-> 1, timeout |-> NoTimeout,
     start_time |-> 0, last_change_time |-> 0, last_hash |-> <<>>,
     content_hash |-> <<>>, wake |-> 0, ret |-> FALSE,
     \* what the claims read: when the loop head was last passed, how many
     \* captures were taken, whether each differed from the one before, since
     \* when the captures have been the same, when the content captured last
     \* had last changed, and the clock at the return
     checked_at |-> 0, polls |-> 0, unstable |-> TRUE, same_since |-> 0,
     captured_change |-> 0, ret_time |-> 0]

InitIdleVars ==
    /\ now = 0
    /\ content \in ContentValues
    /\ last_real_change = 0
    /\ wfi = WfiIdle

ParkedIdleVars ==
    /\ now = 0
    /\ content = "A"
    /\ last_real_change = 0
    /\ wfi = WfiIdle

Tick ==
    /\ now < MaxTime
    /\ now' = now + 1
    /\ UNCHANGED <<content, last_real_change, wfi>>

ContentChange ==
    /\ wfi.pc \notin {"done", "raised"}
    /\ content' \in ContentValues \ {content}
    /\ last_real_change' = now
    /\ UNCHANGED <<now, wfi>>

\* wait_for_idle(window_id, idle_time, check_interval, timeout), up to
\* start_time = time.time()
WaitForIdleCall(window_id, idle_time, check_interval, timeout) ==
    /\ wfi.pc = "idle"
    /\ wfi' = IF window_id = None /\ target_window = None
              THEN [wfi EXCEPT !.pc = "raised"]
              ELSE [wfi EXCEPT !.pc = "init", !.idle_time = idle_time,
                               !.check_interval = check_interval, !.timeout = timeout,
                               !.start_time = now]
    /\ UNCHANGED <<now, content, last_real_change>>

\* last_change_time = time.time(); last_hash = ""
WaitForIdleInit ==
    /\ wfi.pc = "init"
    /\ wfi' = [wfi EXCEPT !.pc = "check", !.last_change_time = now, !.last_hash = <<>>]
    /\ UNCHANGED <<now, content, last_real_change>>

Returned(w, ret) ==
    [w EXCEPT !.pc = "done", !.ret = ret, !.ret_time = now]

\* The loop head: if timeout and (time.time() - start_time > timeout): return False
TimeoutCheck(w) ==
    IF Truthy(w.timeout) /\ now - w.start_time > w.timeout
    THEN Returned(w, FALSE)
    ELSE [w EXCEPT !.pc = "capture", !.checked_at = now]

WaitForIdleCheck ==
    /\ wfi.pc = "check"
    /\ wfi' = TimeoutCheck(wfi)
    /\ UNCHANGED <<now, content, last_real_change>>

\* content = self.capture_window(target); content_hash = md5(content)
WaitForIdleCapture ==
    /\ wfi.pc = "capture"
    /\ LET changed == IF wfi.polls = 0 THEN TRUE
                      ELSE Md5(content) # wfi.content_hash
       IN  wfi' = [wfi EXCEPT !.pc = "compare", !.content_hash = Md5(content),
                       !.polls = wfi.polls + 1,
                       !.unstable = wfi.unstable /\ changed,
                       !.same_since = IF changed THEN now ELSE wfi.same_since,
                       !.captured_change = last_real_change]
    /\ UNCHANGED <<now, content, last_real_change>>

\* The comparison without the reset of last_change_time on a change.
CompareWithoutReset(w) ==
    IF w.content_hash # w.last_hash
    THEN [w EXCEPT !.pc = "sleep", !.last_hash = w.content_hash,
                   !.wake = now + w.check_interval]
    ELSE IF now - w.last_change_time >= w.idle_time
    THEN Returned(w, TRUE)
    ELSE [w EXCEPT !.pc = "sleep", !.wake = now + w.check_interval]

\* if content_hash != last_hash: ... elif time.time() - last_change_time >=
\* idle_time: return True; then time.sleep(check_interval) starts
Compare(w) ==
    IF w.content_hash # w.last_hash
    THEN [w EXCEPT !.pc = "sleep", !.last_hash = w.content_hash,
                   !.last_change_time = now, !.wake = now + w.check_interval]
    ELSE IF now - w.last_change_time >= w.idle_time
    THEN Returned(w, TRUE)
    ELSE [w EXCEPT !.pc = "sleep", !.wake = now + w.check_interval]

WaitForIdleCompare ==
    /\ wfi.pc = "compare"
    /\ wfi' = Compare(wfi)
    /\ UNCHANGED <<now, content, last_real_change>>

\* time.sleep(check_interval) returns, not before check_interval has passed
WaitForIdleWake ==
    /\ wfi.pc = "sleep"
    /\ now >= wfi.wake
    /\ wfi' = [wfi EXCEPT !.pc = "check"]
    /\ UNCHANGED <<now, content, last_real_change>>

(***************************************************************************)
(* execute(command, target, hide_transmission, timeout)                    *)
(* The method is not in the sources at hand (only its tests and demos      *)
(* are); it is modelled from section 4.2 of the specification, steps 1-7.  *)
(* The shell of the target takes the commands sent to it in order, runs    *)
(* each once and prints the end marker of a wrapped command when done.     *)
(***************************************************************************)
MaxExecs == 2              \* execute() calls in one run

ExIdle ==
    [pc |-> "idle", call |-> 0, hide |-> FALSE, timeout |-> 1, start_time |-> 0,
     wake |-> 0, sent |-> 0, outcome |-> "none", exit_code |-> -1,
     captures |-> 0, output |-> 0, failed |-> FALSE,
     prev_hide |-> FALSE, prev_outcome |-> "none"]

ShellIdle ==
    [echo |-> TRUE, history |-> TRUE, queue |-> <<>>,
     ran |-> [c \in 1..MaxExecs |-> 0], exit |-> [c \in 1..MaxExecs |-> -1]]

InitExecVars ==
    /\ ex = ExIdle
    /\ shell = ShellIdle

ParkedExecVars == InitExecVars

\* Step 1: resolve the target (the explicit one, else the current one);
\* without either the call raises at once.  Step 2: a fresh marker pair.
ExecuteCall(target, hide, timeout) ==
    /\ ex.pc \in {"idle", "done", "raised"}
    /\ ex.call < MaxExecs
    /\ ex' = IF target = None /\ target_window = None
             THEN [ex EXCEPT !.pc = "raised", !.outcome = "no target", !.hide = FALSE,
                             !.sent = 0, !.prev_hide = ex.hide,
                             !.prev_outcome = ex.outcome]
             ELSE [ex EXCEPT !.pc = IF hide THEN "suppress" ELSE "send",
                             !.call = ex.call + 1, !.hide = hide, !.timeout = timeout,
                             !.sent = 0, !.outcome = "none", !.exit_code = -1,
                             !.captures = 0, !.output = 0, !.failed = FALSE,
                             !.prev_hide = ex.hide, !.prev_outcome = ex.outcome]
    /\ UNCHANGED <<shell, now>>

\* Step 3: suppress the shell's echo and keep the command out of its history.
ExecuteSuppress ==
    /\ ex.pc = "suppress"
    /\ shell' = [shell EXCEPT !.echo = FALSE, !.history = FALSE]
    /\ ex' = [ex EXCEPT !.pc = "send"]
    /\ UNCHANGED now

\* The wrapped command reaches the shell n times.
Transmit(sh, call, n) ==
    [sh EXCEPT !.queue = sh.queue \o [i \in 1..n |-> call]]

\* The wrapped command sent twice when the transmission is hidden.
SendTwiceWhenHidden(e, sh) ==
    Transmit(sh, e.call, IF e.hide THEN 2 ELSE 1)

\* Step 4: wrap the command and send it as one keystrokes-plus-Enter operation.
SendWrapped(e, sh) == Transmit(sh, e.call, 1)

ExecuteSend(ok) ==
    /\ ex.pc = "send"
    /\ IF ok
       THEN /\ shell' = SendWrapped(ex, shell)
            /\ ex' = [ex EXCEPT !.pc = "poll", !.sent = Len(shell'.queue) - Len(shell.queue),
                                !.start_time = now]
       ELSE /\ ex' = [ex EXCEPT !.pc = "restore", !.outcome = "exception", !.failed = TRUE]
            /\ UNCHANGED shell
    /\ UNCHANGED now

\* The shell runs the command at the head of its queue, once, and prints
\* the end marker with the exit status.
ShellRun(code) ==
    /\ shell.queue # <<>>
    /\ shell' = [shell EXCEPT !.queue = Tail(shell.queue),
                              !.ran[Head(shell.queue)] = @ + 1,
                              !.exit[Head(shell.queue)] = code]
    /\ UNCHANGED <<ex, now>>

\* The timeout reported by raising instead of by a result.
RaiseOnTimeout(e) ==
    [e EXCEPT !.pc = "restore", !.outcome = "exception"]

\* Step 6, timeout: the result is {output: last capture, exit_code: -1}.
\* captures counts the captures of this call; output is the number of the
\* capture the result is made from.
TimedOut(e) ==
    [e EXCEPT !.pc = "restore", !.outcome = "timeout", !.exit_code = -1,
              !.output = e.captures]

\* Steps 5 and 6: capture and look for the end marker; stop on the end
\* marker (parse the capture) or when the timeout has elapsed (exit code -1).
ExecutePoll(ok) ==
    /\ ex.pc = "poll"
    /\ ex' = IF ~ok
             THEN [ex EXCEPT !.pc = "restore", !.outcome = "exception", !.failed = TRUE]
             ELSE LET e == [ex EXCEPT !.captures = ex.captures + 1] IN
                  IF shell.ran[ex.call] > 0
                  THEN [e EXCEPT !.pc = "restore", !.outcome = "success",
                                 !.exit_code = shell.exit[ex.call],
                                 !.output = e.captures]
                  ELSE IF now - ex.start_time >= ex.timeout
                  THEN TimedOut(e)
                  ELSE [e EXCEPT !.pc = "sleep", !.wake = now + 1]
    /\ UNCHANGED <<shell, now>>

ExecuteWake ==
    /\ ex.pc = "sleep"
    /\ now >= ex.wake
    /\ ex' = [ex EXCEPT !.pc = "poll"]
    /\ UNCHANGED <<shell, now>>

\* The restoration left out when the wait timed out.
RestoreUnlessTimedOut(e, sh) ==
    IF e.hide /\ e.outcome # "timeout" THEN [sh EXCEPT !.echo = TRUE, !.history = TRUE] ELSE sh

\* Step 7: restore the echo and history state, on every exit path.
Restore(e, sh) ==
    IF e.hide THEN [sh EXCEPT !.echo = TRUE, !.history = TRUE] ELSE sh

ExecuteRestore ==
    /\ ex.pc = "restore"
    /\ shell' = Restore(ex, shell)
    /\ ex' = [ex EXCEPT !.pc = IF ex.outcome = "exception" THEN "raised" ELSE "done"]
    /\ UNCHANGED now

\* Time passing while execute() runs.
ExecTick ==
    /\ now < MaxTime
    /\ now' = now + 1
    /\ UNCHANGED <<ex, shell>>

(***************************************************************************)
(* CLI, the facade, and the RemoteTmuxController it builds outside tmux.   *)
(* tmux_remote_controller.py is not in the sources at hand (its tests      *)
(* are); its constructor and _ensure_session are modelled from section 6   *)
(* of the specification: has-session, then new-session only when the       *)
(* session is not there.                                                   *)
(***************************************************************************)
MaxOps == 3                \* operations on one CLI object in one run

DefaultSession == <<"remote-cli-session">>
SessionNames == {DefaultSession, <<"test-session">>}

CliNone ==
    [constructed |-> FALSE, in_tmux |-> FALSE, mode |-> "none", ops |-> 0,
     \* what the claims read: the TMUX signal at construction and the
     \* backend the last operation went to
     env_at_init |-> FALSE, dispatched |-> "none"]

RemoteNone ==
    [constructed |-> FALSE, session_name |-> None, target_window |-> None,
     \* what the claims read: the _ensure_session steps taken, whether the
     \* last one found the session, and the new-session commands it issued
     ensures |-> 0, existed |-> FALSE, new_sessions |-> 0]

InitFacadeVars ==
    /\ env_tmux \in BOOLEAN
    /\ sessions \in SUBSET SessionNames
    /\ cli = CliNone
    /\ remote = RemoteNone

ParkedFacadeVars ==
    /\ env_tmux = TRUE
    /\ sessions = {}
    /\ cli = CliNone
    /\ remote = RemoteNone

\* _ensure_session issuing new-session whether or not the session exists.
NewSessionAlways(existed) == 1

\* The new-session commands of one _ensure_session step.
NewSessionCommands(existed) == IF existed THEN 0 ELSE 1

\* _ensure_session: the controller after the step; ok is whether tmux
\* new-session succeeds.
EnsureSession(r, ss) ==
    [r EXCEPT !.ensures = r.ensures + 1,
              !.existed = r.session_name \in ss,
              !.new_sessions = NewSessionCommands(r.session_name \in ss),
              !.target_window = IF r.target_window = None
                                THEN Qualified(r.session_name, <<"0">>)
                                ELSE r.target_window]

\* The sessions of the server after the step.
EnsuredSessions(r, ss, ok) ==
    IF r.session_name \notin ss /\ ok THEN ss \cup {r.session_name} ELSE ss

\* The backend an operation of the facade goes to, read from the TMUX
\* signal at the time of the operation.
BackendFromEnvironment(c, e) == IF e THEN "local" ELSE "remote"

\* `if self.mode == 'local': ... else: ...`
Backend(c, e) == c.mode

\* CLI(session)
CliInit(session, ok) ==
    /\ ~cli.constructed
    /\ IF env_tmux
       THEN /\ cli' = [cli EXCEPT !.constructed = TRUE, !.in_tmux = TRUE, !.mode = "local",
                                  !.env_at_init = env_tmux]
            /\ UNCHANGED <<remote, sessions>>
       ELSE LET r == [remote EXCEPT !.constructed = TRUE,
                                    !.session_name = IF session # None THEN session
                                                     ELSE DefaultSession]
            IN  /\ cli' = [cli EXCEPT !.constructed = TRUE, !.in_tmux = FALSE,
                                      !.mode = "remote", !.env_at_init = env_tmux]
                /\ remote' = EnsureSession(r, sessions)
                /\ sessions' = EnsuredSessions(r, sessions, ok)
    /\ UNCHANGED env_tmux

\* An operation that sends to or reads from a target: send, capture,
\* interrupt, escape, launch, list_windows.
CliOperation(ok) ==
    /\ cli.constructed
    /\ cli.ops < MaxOps
    /\ cli' = [cli EXCEPT !.ops = cli.ops + 1, !.dispatched = Backend(cli, env_tmux)]
    /\ IF Backend(cli, env_tmux) = "remote" /\ remote.constructed
       THEN /\ remote' = EnsureSession(remote, sessions)
            /\ sessions' = EnsuredSessions(remote, sessions, ok)
       ELSE UNCHANGED <<remote, sessions>>
    /\ UNCHANGED env_tmux

\* CLI.cleanup: local mode kills the tmux-cli windows, remote mode kills
\* the whole session.
CliCleanup ==
    /\ cli.constructed
    /\ cli.ops < MaxOps
    /\ cli' = [cli EXCEPT !.ops = cli.ops + 1, !.dispatched = Backend(cli, env_tmux)]
    /\ sessions' = IF Backend(cli, env_tmux) = "remote" /\ remote.constructed
                   THEN sessions \ {remote.session_name}
                   ELSE sessions
    /\ UNCHANGED <<env_tmux, remote>>

\* os.environ changes after the construction, or before it.
EnvChange ==
    /\ env_tmux' = ~env_tmux
    /\ UNCHANGED <<sessions, cli, remote>>

\* Somebody else creates or kills a session of the server.
SessionsChange ==
    /\ \E n \in SessionNames :
          sessions' = IF n \in sessions THEN sessions \ {n} ELSE sessions \cup {n}
    /\ UNCHANGED <<env_tmux, cli, remote>>

(***************************************************************************)
(* wrap, run, capture, parse: the wrapped command is typed into the shell  *)
(* of the pane, the shell runs it, the pane is captured and the capture    *)
(* is parsed.  With the terminal's echo on, the pane shows the typed line  *)
(* before what the command line prints.                                    *)
(***************************************************************************)
MaxOutLen == 3         \* longest output of the command

OutChars == {"x", "\n", "E", ":", "S"}
Outputs == UNION {[1..n -> OutChars] : n \in 0..MaxOutLen}
ExitCodes == {0, 1, 127, 255}

Command == <<"cmd">>
Prompt == <<"$">>

\* f'echo {start_marker}; {{ {command}; }} 2>&1; echo {end_marker}:$?'
wrap_command_with_markers(command, start_marker, end_marker) ==
    <<"echo ">> \o start_marker \o <<"; { ">> \o command \o
    <<"; } 2>&1; echo ">> \o end_marker \o <<":", "$?">>

\* What the shell prints when it runs the wrapped command: the start
\* marker on a line, the command's output, the end marker with $?.
Printed(output, exit_code, start_marker, end_marker) ==
    start_marker \o <<"\n">> \o output \o end_marker \o <<":">> \o Str(exit_code) \o <<"\n">>

\* The pane after the run: the prompt, the typed line if the terminal
\* echoes it, what was printed, the next prompt.
PaneText(echo, wrapped, printed) ==
    Prompt \o (IF echo THEN wrapped \o <<"\n">> ELSE <<>>) \o printed \o Prompt

RunIdle ==
    [pc |-> "ready", output |-> <<>>, exit_code |-> 0, echo |-> FALSE,
     captured |-> <<>>, result |-> ParseFailed(<<>>)]

InitRunVars ==
    \E output \in Outputs, exit_code \in ExitCodes, echo \in BOOLEAN :
        run = [RunIdle EXCEPT !.output = output, !.exit_code = exit_code, !.echo = echo]

ParkedRunVars == run = RunIdle

\* The wrapped command is sent, runs, and the pane is captured.
RunAndCapture ==
    /\ run.pc = "ready"
    /\ run' = [run EXCEPT
                 !.pc = "captured",
                 !.captured = PaneText(run.echo,
                                       wrap_command_with_markers(Command, StartMarker, EndMarker),
                                       Printed(run.output, run.exit_code, StartMarker, EndMarker))]

\* parse_marked_output(captured, start_marker, end_marker)
ParseCapture ==
    /\ run.pc = "captured"
    /\ run' = [run EXCEPT !.pc = "parsed",
                          !.result = parse_marked_output(run.captured, StartMarker, EndMarker)]

(***************************************************************************)
(* git_commit_block_hook.check_git_commit_command                          *)
(* A command is a text of the pieces "git" and "commit" and of blanks and  *)
(* tabs; pieces next to each other make one word.                          *)
(***************************************************************************)
MaxHookCalls == 5      \* calls of check_git_commit_command in one run
MaxCmdLen == 3         \* longest command, in pieces

Whitespace == {" ", "\t"}
CmdPieces == {"git", "commit", " ", "\t"}
HookCommands == UNION {[1..n -> CmdPieces] : n \in 0..MaxCmdLen}

\* ' '.join(command.strip().split())
RECURSIVE JoinSplit(_, _)
JoinSplit(command, atStart) ==
    IF command = <<>> THEN <<>>
    ELSE IF Head(command) \in Whitespace
         THEN LET rest == JoinSplit(Tail(command), atStart)
              IN  IF atStart \/ Tail(command) = <<>> \/ Head(Tail(command)) \in Whitespace
                  THEN rest
                  ELSE <<" ">> \o rest
    ELSE <<Head(command)>> \o JoinSplit(Tail(command), FALSE)

Normalized(command) == JoinSplit(command, TRUE)

\* normalized_cmd.startswith('git commit')
IsGitCommit(command) == StartsWith(Normalized(command), <<"git", " ", "commit">>)

\* The flag looked at and left where it is.
check_flag_only(exists) == [ret |-> exists, exists |-> exists]

\* check_and_remove_flag(path): os.remove, True unless FileNotFoundError
check_and_remove_flag(exists) == [ret |-> exists, exists |-> FALSE]

\* create_flag(path): os.open with O_CREAT | O_EXCL, True unless FileExistsError
create_flag(exists) == [ret |-> ~exists, exists |-> TRUE]

\* check_git_commit_command(command): what it returns and the flag file after it
check_git_commit_command(command, exists) ==
    IF ~IsGitCommit(command)
    THEN [should_block |-> FALSE, exists |-> exists]
    ELSE IF check_and_remove_flag(exists).ret
         THEN [should_block |-> FALSE, exists |-> check_and_remove_flag(exists).exists]
         ELSE [should_block |-> TRUE,
               exists |-> create_flag(check_and_remove_flag(exists).exists).exists]

HookNone ==
    [calls |-> 0, command |-> <<>>, should_block |-> FALSE,
     \* what the claims read: the git commit commands checked so far
     commits |-> 0]

InitHookVars ==
    /\ flag_file = FALSE
    /\ hook = HookNone

ParkedHookVars == InitHookVars

\* One call, after the one before has returned.
CheckCommand(command) ==
    /\ hook.calls < MaxHookCalls
    /\ flag_file' = check_git_commit_command(command, flag_file).exists
    /\ hook' = [calls |-> hook.calls + 1,
                command |-> command,
                should_block |-> check_git_commit_command(command, flag_file).should_block,
                commits |-> hook.commits + (IF IsGitCommit(command) THEN 1 ELSE 0)]

(***************************************************************************)
(* git_add_block_hook.check_git_add_command                                *)
(* A command is a text of the pieces "git", "add", "commit", of single     *)
(* characters and of blanks and tabs.                                      *)
(***************************************************************************)
MaxAddCalls == 4       \* calls of check_git_add_command in one run

\* [a-zA-Z]: the pieces made of letters, and the ones that hold an a or an m
LetterPieces == {"s", "l", "a", "u", "m", "git", "add", "commit"}
HoldsA == {"a", "add"}
HoldsM == {"m", "commit"}

\* normalized_cmd.split(): the words between the blanks
RECURSIVE Words(_)
Words(normalized) ==
    IF normalized = <<>> THEN <<>>
    ELSE IF Contains(normalized, <<" ">>)
         THEN <<Slice(normalized, 0, Find(normalized, <<" ">>))>>
              \o Words(SliceFrom(normalized, Find(normalized, <<" ">>) + 1))
    ELSE <<normalized>>

Pieces(word) == {word[i] : i \in 1..Len(word)}

\* part.rstrip('/')
RECURSIVE RStripSlashes(_)
RStripSlashes(part) ==
    IF part # <<>> /\ part[Len(part)] = "/"
    THEN RStripSlashes(SubSeq(part, 1, Len(part) - 1))
    ELSE part

\* One alternative of dangerous_pattern matched at the start of a word and
\* up to its end: a flag with an a or A in it, --all, a lone dot, ../ and
\* what follows of dots, word characters and slashes.
DangerousWord(word) ==
    \/ /\ Len(word) >= 2
       /\ word[1] = "-"
       /\ Pieces(Tail(word)) \subseteq LetterPieces
       /\ Pieces(Tail(word)) \cap HoldsA # {}
    \/ word = <<"-", "-", "a", "l", "l">>
    \/ word = <<".">>
    \/ /\ StartsWith(word, <<".", ".", "/">>)
       /\ Pieces(word) \subseteq LetterPieces \cup {".", "/"}

\* dangerous_pattern.search(normalized_cmd): after git add, at the first
\* argument or, one argument skipped, at the second
Dangerous(words) ==
    /\ Len(words) >= 3
    /\ words[1] = <<"git">>
    /\ words[2] = <<"add">>
    /\ \/ DangerousWord(words[3])
       \/ Len(words) >= 4 /\ DangerousWord(words[4])

\* directory_pattern: ^git\s+add\s+(?!-)[^\s]+/$
DirectoryPattern(words) ==
    /\ Len(words) = 3
    /\ words[1] = <<"git">>
    /\ words[2] = <<"add">>
    /\ Len(words[3]) >= 2
    /\ words[3][1] # "-"
    /\ words[3][Len(words[3])] = "/"

\* re.search(r'-[a-zA-Z]*a[a-zA-Z]*', ...): a dash, then letters with the
\* wanted one among them
HasFlag(normalized, holding) ==
    \E i \in 1..Len(normalized) :
        /\ normalized[i] = "-"
        /\ \E j \in (i + 1)..Len(normalized) :
              /\ normalized[j] \in holding
              /\ \A k \in (i + 1)..j : normalized[k] \in LetterPieces

\* hashlib.sha256(dir_path.encode()).hexdigest()[:16], for the directories
\* of the commands below
SafeName(dir_path) ==
    CASE dir_path = <<"s">> -> "043a718774c572bd"
      [] dir_path = <<"l">> -> "acac86c0e609ca90"
      [] dir_path = <<"s", "/", "l">> -> "83c3a56c54f1c0a0"
      [] dir_path = <<".">> -> "cdb4ee2aea69cc6a"
      [] dir_path = <<".", ".", "/", "l">> -> "32518f522d7fa443"
      [] dir_path = <<"-", "s">> -> "922e17b4edd60ff0"
      [] dir_path = <<"*">> -> "684888c0ebb17f37"
      [] OTHER -> "e3b0c44298fc1c14"

\* One flag file for every directory.
SharedFlagName(dir_path) == ".claude_git_add_dir.flag"

\* flag_file = Path(f'.claude_git_add_dir_{safe_name}.flag')
AddFlagName(dir_path) == SafeName(dir_path)

\* os.remove(str(flag_file)): whether it removed the file, and the files after
remove_add_flag(flag, flags) == [ret |-> flag \in flags, flags |-> flags \ {flag}]

\* os.open(str(flag_file), O_CREAT | O_EXCL | O_WRONLY): whether it created
\* the file (the call then goes on to block), and the files after
create_add_flag(flag, flags) == [ret |-> flag \notin flags, flags |-> flags \cup {flag}]

\* check_git_add_command(command): what it returns and the flag files after it
check_git_add_command(command, flags) ==
    LET normalized_cmd == Normalized(command)
        parts == Words(normalized_cmd)
        dir_path == RStripSlashes(parts[3])
        flag == AddFlagName(dir_path)
    IN  IF "*" \in Pieces(normalized_cmd) /\ StartsWith(normalized_cmd, <<"git", " ", "add">>)
        THEN [should_block |-> TRUE, flags |-> flags]
        ELSE IF Dangerous(parts)
        THEN [should_block |-> TRUE, flags |-> flags]
        ELSE IF DirectoryPattern(parts) /\ dir_path # <<>>
        THEN IF remove_add_flag(flag, flags).ret
             THEN [should_block |-> FALSE, flags |-> remove_add_flag(flag, flags).flags]
             ELSE [should_block |-> create_add_flag(flag, remove_add_flag(flag, flags).flags).ret,
                   flags |-> create_add_flag(flag, remove_add_flag(flag, flags).flags).flags]
        ELSE IF /\ Len(parts) >= 3
                /\ parts[1] = <<"git">>
                /\ parts[2] = <<"commit">>
                /\ HasFlag(normalized_cmd, HoldsA)
                /\ ~HasFlag(normalized_cmd, HoldsM)
        THEN [should_block |-> TRUE, flags |-> flags]
        ELSE [should_block |-> FALSE, flags |-> flags]

\* The arguments of the git add commands checked.
AddArgs ==
    {<<"s", "/">>, <<"l", "/">>, <<"s", "/", "l", "/">>, <<"s", "/", "/">>,
     <<".", ".", "/", "l", "/">>, <<".", "/">>, <<"/">>, <<".">>, <<"s">>,
     <<"-", "a">>, <<"-", "u">>, <<"*", "/">>, <<"-", "s", "/">>}

AddCommands ==
    {<<"git", " ", "add", " ">> \o arg : arg \in AddArgs}
    \cup {<<"git", " ", " ", "add", "\t", "s", "/", " ">>,
          <<"git", " ", "add", " ", "-", "u", " ", "s", "/">>,
          <<"git", " ", "commit", " ", "-", "a">>,
          <<"git", " ", "commit", " ", "-", "a", "m">>}

\* The directory of a command of the form git add d/, None for any other.
StagedDirectory(command) ==
    LET parts == Words(Normalized(command))
    IN  IF /\ Len(parts) = 3
           /\ parts[1] = <<"git">>
           /\ parts[2] = <<"add">>
           /\ parts[3][Len(parts[3])] = "/"
        THEN <<"dir", RStripSlashes(parts[3])>>
        ELSE None

AddHookNone ==
    [calls |-> 0, command |-> <<>>, should_block |-> FALSE,
     \* what the claims read: the directories d with an odd number of
     \* git add d/ commands checked so far
     odd |-> {}]

InitAddVars ==
    /\ add_flags = {}
    /\ addhook = AddHookNone

ParkedAddVars == InitAddVars

\* One call of check_git_add_command, after the one before has returned.
CheckAdd(command) ==
    LET d == StagedDirectory(command)
    IN  /\ addhook.calls < MaxAddCalls
        /\ add_flags' = check_git_add_command(command, add_flags).flags
        /\ addhook' = [calls |-> addhook.calls + 1,
                       command |-> command,
                       should_block |-> check_git_add_command(command, add_flags).should_block,
                       odd |-> IF d = None THEN addhook.odd
                               ELSE IF d \in addhook.odd THEN addhook.odd \ {d}
                               ELSE addhook.odd \cup {d}]

(***************************************************************************)
(* pretask_subtask_flag, posttask_subtask_flag, file_size_conditional_hook *)
(***************************************************************************)
MaxSubtasks == 2       \* subtasks in progress at one time

MainAgentLimit == 500
SubAgentLimit == 10000

\* The files read: line_count around both limits, and what validate_file_path
\* and is_binary_file make of the path.
LineCounts == {0, MainAgentLimit, MainAgentLimit + 1, SubAgentLimit, SubAgentLimit + 1}
FileKinds == {"text", "binary", "missing", "symlink"}

\* create_subtask_flag: the flag exists afterwards, created or not
create_subtask_flag(exists) == TRUE

\* remove_subtask_flag: the flag is gone afterwards, removed or not
remove_subtask_flag(exists) == FALSE

\* Every read judged as the main agent's.
AlwaysMainAgent(exists) == TRUE

\* is_main_agent = not os.path.exists(flag_file)
IsMainAgent(exists) == ~exists

\* check_file_size(file_path, offset, limit, is_main_agent): should_block
check_file_size(kind, line_count, is_main_agent) ==
    IF kind = "symlink" THEN TRUE
    ELSE IF kind = "missing" THEN FALSE
    ELSE IF kind = "binary" THEN FALSE
    ELSE IF is_main_agent /\ line_count > MainAgentLimit THEN TRUE
    ELSE IF ~is_main_agent /\ line_count > SubAgentLimit THEN TRUE
    ELSE FALSE

FszNone ==
    [called |-> FALSE, kind |-> "missing", line_count |-> 0, should_block |-> FALSE,
     \* what the claims read: the flag, the latest flag hook and the
     \* subtasks in progress when the call was made
     flag |-> FALSE, after |-> "none", running |-> 0]

InitSubtaskVars ==
    /\ subtask_flag \in BOOLEAN
    /\ running = 0
    /\ last_flag_hook = "none"
    /\ fsz = FszNone

ParkedSubtaskVars ==
    /\ subtask_flag = FALSE
    /\ running = 0
    /\ last_flag_hook = "none"
    /\ fsz = FszNone

\* pretask_subtask_flag.main, as a subtask starts
Pretask ==
    /\ running < MaxSubtasks
    /\ subtask_flag' = create_subtask_flag(subtask_flag)
    /\ running' = running + 1
    /\ last_flag_hook' = "pre"
    /\ UNCHANGED fsz

\* posttask_subtask_flag.main, as a subtask ends
Posttask ==
    /\ running > 0
    /\ subtask_flag' = remove_subtask_flag(subtask_flag)
    /\ running' = running - 1
    /\ last_flag_hook' = "post"
    /\ UNCHANGED fsz

\* file_size_conditional_hook.main on one Read call
FileSizeHook(kind, line_count) ==
    /\ fsz' = [called |-> TRUE, kind |-> kind, line_count |-> line_count,
               should_block |-> check_file_size(kind, line_count, IsMainAgent(subtask_flag)),
               flag |-> subtask_flag, after |-> last_flag_hook, running |-> running]
    /\ UNCHANGED <<subtask_flag, running, last_flag_hook>>

(***************************************************************************)
(* bash_hook.main with rm_block_hook and env_file_protection_hook          *)
(* The commands are texts of the pieces below.                             *)
(***************************************************************************)
\* The pieces that begin and end with a word character (\w).
WordPieces == LetterPieces \cup {"rm", "sudo", "cat", "x", "checkout"}

\* \b between two neighbours of a text: exactly one side is a word character.
\* The piece ".env" begins with a dot and ends with a letter.
EndsInWord(normalized, i) == i >= 1 /\ i <= Len(normalized) /\ normalized[i] \in WordPieces \cup {".env"}
BeginsInWord(normalized, i) == i >= 1 /\ i <= Len(normalized) /\ normalized[i] \in WordPieces
Boundary(normalized, i) == EndsInWord(normalized, i) # BeginsInWord(normalized, i + 1)

\* (^|[;&|]\s*)(sudo\s+)?rm\b matched with rm at position i; no piece holds
\* a slash before rm, so (/\S*/)? matches nothing
RmAt(normalized, i) ==
    LET AnchoredAt(k) ==      \* the text before position k is ^ or ends in ; and blanks
            \/ k = 1
            \/ k >= 2 /\ normalized[k - 1] = ";"
            \/ k >= 3 /\ normalized[k - 1] = " " /\ normalized[k - 2] = ";"
    IN  /\ normalized[i] = "rm"
        /\ Boundary(normalized, i)
        /\ \/ AnchoredAt(i)
           \/ i >= 3 /\ normalized[i - 1] = " " /\ normalized[i - 2] = "sudo" /\ AnchoredAt(i - 2)

\* check_rm_command(command): should_block
check_rm_command(command) ==
    LET normalized_cmd == Normalized(command)
    IN  \/ StartsWith(normalized_cmd, <<"rm", " ">>)
        \/ normalized_cmd = <<"rm">>
        \/ \E i \in 1..Len(normalized_cmd) : RmAt(normalized_cmd, i)

\* check_env_file_access(command): should_block.  Of ENV_PATTERNS a text of
\* these pieces can only match \bcat\s+.*\.env\b.
check_env_file_access(command) ==
    LET normalized_cmd == Normalized(command)
    IN  \E i \in 1..Len(normalized_cmd) :
            /\ normalized_cmd[i] = "cat"
            /\ Boundary(normalized_cmd, i - 1)
            /\ i < Len(normalized_cmd)
            /\ normalized_cmd[i + 1] = " "
            /\ \E j \in (i + 2)..Len(normalized_cmd) :
                  normalized_cmd[j] = ".env" /\ Boundary(normalized_cmd, j)

BashCommands ==
    {<<"x">>,
     <<"rm", " ", "x">>,
     <<"rm", "x">>,
     <<"x", "rm", " ", "x">>,
     <<"sudo", " ", " ", "rm", " ", "x">>,
     <<"x", ";", "rm">>,
     <<"rm", " ", ".env">>,
     <<"cat", " ", ".env">>,
     <<"cat", " ", ".env", "x">>,
     <<"cat", " ", ".env", ";", " ", "rm", " ", "x">>,
     <<"git", " ", "add", " ", ".">>,
     <<"git", " ", "add", " ", ".env">>,
     <<"git", " ", "add", " ", "s", "/">>,
     <<"git", " ", "commit">>,
     <<"git", " ", "commit", " ", "-", "a">>,
     <<"git", " ", "checkout", " ", "x">>}

ToolNames == {"Bash", "Read"}

\* The checks in the order of _check_functions.
Checks == <<"rm", "git_add", "git_checkout", "git_commit", "env_file">>

\* blocking_reasons: the checks that returned should_block
BlockingReasons(verdicts) == {i \in 1..Len(Checks) : verdicts[i]}

\* Only the first check decides.
DecideByFirstCheck(verdicts) == IF verdicts[1] THEN "block" ELSE "approve"

\* if blocking_reasons: block(combined_reason) else: approve()
Decide(verdicts) == IF BlockingReasons(verdicts) # {} THEN "block" ELSE "approve"

BashNone ==
    [called |-> FALSE, tool_name |-> "Read", command |-> <<>>,
     verdicts |-> <<FALSE, FALSE, FALSE, FALSE, FALSE>>, ran |-> FALSE,
     decision |-> "approve"]

InitBashVars == bash = BashNone

ParkedBashVars == InitBashVars

\* bash_hook.main on one tool call.  check_git_checkout_command is imported
\* from a module that is not part of the tree: its answer is any of the two.
BashHook(tool_name, command, checkout) ==
    LET verdicts == <<check_rm_command(command),
                      check_git_add_command(command, add_flags).should_block,
                      checkout,
                      check_git_commit_command(command, flag_file).should_block,
                      check_env_file_access(command)>>
    IN  IF tool_name # "Bash"
        THEN /\ bash' = [BashNone EXCEPT !.called = TRUE, !.tool_name = tool_name,
                                         !.command = command]
             /\ UNCHANGED <<add_flags, flag_file>>
        ELSE /\ bash' = [called |-> TRUE, tool_name |-> tool_name, command |-> command,
                         verdicts |-> verdicts, ran |-> TRUE,
                         decision |-> Decide(verdicts)]
             /\ add_flags' = check_git_add_command(command, add_flags).flags
             /\ flag_file' = check_git_commit_command(command, flag_file).exists

(***************************************************************************)
(* find_claude_session.search_keywords_in_file                             *)
(***************************************************************************)
MaxFileLen == 3        \* characters in the file
MaxKeywords == 2       \* keywords in the list

FileChars == {"a", "A", "b", "\n"}
FileTexts == UNION {[1..n -> FileChars] : n \in 0..MaxFileLen}
Keywords == {<<"a">>, <<"A">>, <<"b">>, <<"a", "b">>, <<"a", "\n", "b">>}
KeywordLists == UNION {[1..n -> Keywords] : n \in 0..MaxKeywords}

\* str.lower()
Lower(c) == IF c = "A" THEN "a" ELSE c
LowerText(text) == [i \in 1..Len(text) |-> Lower(text[i])]

\* for line in f: the lines of the file, each with its newline
RECURSIVE FileLines(_)
FileLines(text) ==
    IF text = <<>> THEN <<>>
    ELSE IF Contains(text, <<"\n">>)
         THEN <<Slice(text, 0, Find(text, <<"\n">>) + 1)>>
              \o FileLines(SliceFrom(text, Find(text, <<"\n">>) + 1))
    ELSE <<text>>

\* keywords_lower = [k.lower() for k in keywords]
KeywordsLower(keywords) == [i \in 1..Len(keywords) |-> LowerText(keywords[i])]

\* found_keywords after the loop over the lines
FoundKeywords(text, keywords) ==
    {KeywordsLower(keywords)[i] : i \in
        {i \in 1..Len(keywords) :
            \E n \in 1..Len(FileLines(text)) :
                Contains(LowerText(FileLines(text)[n]), KeywordsLower(keywords)[i])}}

\* matches = len(found_keywords) == len(keywords_lower)
Matches(text, keywords) == Cardinality(FoundKeywords(text, keywords)) = Len(keywords)

\* search_keywords_in_file(filepath, keywords)
search_keywords_in_file(readable, text, keywords) ==
    IF ~readable
    THEN [matches |-> FALSE, line_count |-> 0]
    ELSE [matches |-> Matches(text, keywords), line_count |-> Len(FileLines(text))]

SearchIdle ==
    [called |-> FALSE, readable |-> TRUE, text |-> <<>>, keywords |-> <<>>,
     matches |-> FALSE, line_count |-> 0]

InitSearchVars ==
    \E readable \in BOOLEAN, text \in FileTexts, keywords \in KeywordLists :
        search = [SearchIdle EXCEPT !.readable = readable, !.text = text,
                                    !.keywords = keywords]

ParkedSearchVars == search = SearchIdle

\* One call on the file and the keyword list of this run.
SearchCall ==
    /\ ~search.called
    /\ search' = [search EXCEPT
          !.called = TRUE,
          !.matches = search_keywords_in_file(search.readable, search.text, search.keywords).matches,
          !.line_count = search_keywords_in_file(search.readable, search.text, search.keywords).line_count]

(***************************************************************************)
(* Concurrent invocations of check_git_commit_command, and of              *)
(* check_git_add_command for one directory, in one working directory.      *)
(* An invocation is two steps on the file system: os.remove, and, when     *)
(* that found no file, os.open with O_CREAT | O_EXCL.                      *)
(***************************************************************************)
MaxProcs == 4          \* hook processes side by side
MaxRaceCalls == 6      \* invocations in one run

Procs == 1..MaxProcs

RaceIdle ==
    [pc |-> [p \in Procs |-> "idle"], started |-> 0,
     \* what the claims read: the invocations that returned allowed, blocked
     allowed |-> 0, blocked |-> 0]

InitRaceVars == race = RaceIdle

ParkedRaceVars == InitRaceVars

\* check_git_commit_command up to the return of check_and_remove_flag
CommitRemove(p) ==
    /\ race.pc[p] = "idle"
    /\ race.started < MaxRaceCalls
    /\ flag_file' = check_and_remove_flag(flag_file).exists
    /\ race' = IF check_and_remove_flag(flag_file).ret
               THEN [race EXCEPT !.started = @ + 1, !.allowed = @ + 1]
               ELSE [race EXCEPT !.started = @ + 1, !.pc[p] = "create"]

\* create_flag and the return of check_git_commit_command
CommitCreate(p) ==
    /\ race.pc[p] = "create"
    /\ flag_file' = create_flag(flag_file).exists
    /\ race' = [race EXCEPT !.pc[p] = "idle", !.blocked = @ + 1]

\* The directory of the concurrent git add commands.
RaceFlag == AddFlagName(<<"s">>)

\* check_git_add_command('git add s/') up to the return of os.remove
AddRemove(p) ==
    /\ race.pc[p] = "idle"
    /\ race.started < MaxRaceCalls
    /\ add_flags' = remove_add_flag(RaceFlag, add_flags).flags
    /\ race' = IF remove_add_flag(RaceFlag, add_flags).ret
               THEN [race EXCEPT !.started = @ + 1, !.allowed = @ + 1]
               ELSE [race EXCEPT !.started = @ + 1, !.pc[p] = "create"]

\* os.open and the return of check_git_add_command
AddCreate(p) ==
    /\ race.pc[p] = "create"
    /\ add_flags' = create_add_flag(RaceFlag, add_flags).flags
    /\ race' = IF create_add_flag(RaceFlag, add_flags).ret
               THEN [race EXCEPT !.pc[p] = "idle", !.blocked = @ + 1]
               ELSE [race EXCEPT !.pc[p] = "idle", !.allowed = @ + 1]

(***************************************************************************)
(* Specifications                                                          *)
(***************************************************************************)
InitParse == InitParseVars /\ ParkedMarkerVars /\ ParkedCtlVars /\ ParkedIdleVars /\ ParkedExecVars /\ ParkedFacadeVars /\ ParkedRunVars /\ ParkedHookVars /\ ParkedAddVars /\ ParkedSubtaskVars /\ ParkedBashVars /\ ParkedSearchVars /\ ParkedRaceVars
NextParse == ParseCall /\ UNCHANGED <<markerVars, ctlVars, idleVars, execVars, facadeVars, runVars, hookVars, addVars, subtaskVars, bashVars, searchVars, raceVars>>
SpecParse == InitParse /\ [][NextParse]_vars

InitMarkers == ParkedParseVars /\ InitMarkerVars /\ ParkedCtlVars /\ ParkedIdleVars /\ ParkedExecVars /\ ParkedFacadeVars /\ ParkedRunVars /\ ParkedHookVars /\ ParkedAddVars /\ ParkedSubtaskVars /\ ParkedBashVars /\ ParkedSearchVars /\ ParkedRaceVars
NextMarkers ==
    \/ ClockTick /\ UNCHANGED <<parseVars, ctlVars, idleVars, execVars, facadeVars, runVars, hookVars, addVars, subtaskVars, bashVars, searchVars, raceVars>>
    \/ Generate /\ UNCHANGED <<parseVars, ctlVars, idleVars, execVars, facadeVars, runVars, hookVars, addVars, subtaskVars, bashVars, searchVars, raceVars>>
SpecMarkers == InitMarkers /\ [][NextMarkers]_vars

InitCtl == ParkedParseVars /\ ParkedMarkerVars /\ InitCtlVars /\ ParkedIdleVars /\ ParkedExecVars /\ ParkedFacadeVars /\ ParkedRunVars /\ ParkedHookVars /\ ParkedAddVars /\ ParkedSubtaskVars /\ ParkedBashVars /\ ParkedSearchVars /\ ParkedRaceVars
NextCtl ==
    \/ \E c \in CustomNames, g \in GeneratedNames, ok \in BOOLEAN :
          CreateWindow(c, g, ok) /\ UNCHANGED <<parseVars, markerVars, idleVars, execVars, facadeVars, runVars, hookVars, addVars, subtaskVars, bashVars, searchVars, raceVars>>
    \/ \E i \in Identifiers : KillWindow(i) /\ UNCHANGED <<parseVars, markerVars, idleVars, execVars, facadeVars, runVars, hookVars, addVars, subtaskVars, bashVars, searchVars, raceVars>>
    \/ \E i \in Identifiers : ResolveCall(i) /\ UNCHANGED <<parseVars, markerVars, idleVars, execVars, facadeVars, runVars, hookVars, addVars, subtaskVars, bashVars, searchVars, raceVars>>
    \/ \E i \in Targets, delayed \in BOOLEAN :
          SendKeys(i, delayed) /\ UNCHANGED <<parseVars, markerVars, idleVars, execVars, facadeVars, runVars, hookVars, addVars, subtaskVars, bashVars, searchVars, raceVars>>
    \/ \E i \in Targets : CaptureWindow(i) /\ UNCHANGED <<parseVars, markerVars, idleVars, execVars, facadeVars, runVars, hookVars, addVars, subtaskVars, bashVars, searchVars, raceVars>>
    \/ \E i \in Targets : Interrupt(i) /\ UNCHANGED <<parseVars, markerVars, idleVars, execVars, facadeVars, runVars, hookVars, addVars, subtaskVars, bashVars, searchVars, raceVars>>
    \/ \E i \in Targets : Escape(i) /\ UNCHANGED <<parseVars, markerVars, idleVars, execVars, facadeVars, runVars, hookVars, addVars, subtaskVars, bashVars, searchVars, raceVars>>
    \/ CleanupAllWindows /\ UNCHANGED <<parseVars, markerVars, idleVars, execVars, facadeVars, runVars, hookVars, addVars, subtaskVars, bashVars, searchVars, raceVars>>
SpecCtl == InitCtl /\ [][NextCtl]_vars

InitIdle == ParkedParseVars /\ ParkedMarkerVars /\ ParkedCtlVars /\ InitIdleVars /\ ParkedExecVars /\ ParkedFacadeVars /\ ParkedRunVars /\ ParkedHookVars /\ ParkedAddVars /\ ParkedSubtaskVars /\ ParkedBashVars /\ ParkedSearchVars /\ ParkedRaceVars
NextIdle ==
    \/ Tick /\ UNCHANGED <<parseVars, markerVars, ctlVars, execVars, facadeVars, runVars, hookVars, addVars, subtaskVars, bashVars, searchVars, raceVars>>
    \/ ContentChange /\ UNCHANGED <<parseVars, markerVars, ctlVars, execVars, facadeVars, runVars, hookVars, addVars, subtaskVars, bashVars, searchVars, raceVars>>
    \/ \E window_id \in {None, <<"@", "1">>}, idle_time \in 1..MaxIdleTime,
          check_interval \in 1..MaxCheckInterval, timeout \in {NoTimeout} \cup 0..MaxTimeout :
          WaitForIdleCall(window_id, idle_time, check_interval, timeout)
          /\ UNCHANGED <<parseVars, markerVars, ctlVars, execVars, facadeVars, runVars, hookVars, addVars, subtaskVars, bashVars, searchVars, raceVars>>
    \/ WaitForIdleInit /\ UNCHANGED <<parseVars, markerVars, ctlVars, execVars, facadeVars, runVars, hookVars, addVars, subtaskVars, bashVars, searchVars, raceVars>>
    \/ WaitForIdleCheck /\ UNCHANGED <<parseVars, markerVars, ctlVars, execVars, facadeVars, runVars, hookVars, addVars, subtaskVars, bashVars, searchVars, raceVars>>
    \/ WaitForIdleCapture /\ UNCHANGED <<parseVars, markerVars, ctlVars, execVars, facadeVars, runVars, hookVars, addVars, subtaskVars, bashVars, searchVars, raceVars>>
    \/ WaitForIdleCompare /\ UNCHANGED <<parseVars, markerVars, ctlVars, execVars, facadeVars, runVars, hookVars, addVars, subtaskVars, bashVars, searchVars, raceVars>>
    \/ WaitForIdleWake /\ UNCHANGED <<parseVars, markerVars, ctlVars, execVars, facadeVars, runVars, hookVars, addVars, subtaskVars, bashVars, searchVars, raceVars>>
SpecIdle == InitIdle /\ [][NextIdle]_vars

execOthers == <<parseVars, markerVars, ctlVars, content, last_real_change, wfi, facadeVars, runVars, hookVars, addVars, subtaskVars, bashVars, searchVars, raceVars>>

InitExec == ParkedParseVars /\ ParkedMarkerVars /\ ParkedCtlVars /\ ParkedIdleVars /\ InitExecVars /\ ParkedFacadeVars /\ ParkedRunVars /\ ParkedHookVars /\ ParkedAddVars /\ ParkedSubtaskVars /\ ParkedBashVars /\ ParkedSearchVars /\ ParkedRaceVars
NextExec ==
    \/ ExecTick /\ UNCHANGED execOthers
    \/ \E target \in {None, <<"@", "1">>}, hide \in BOOLEAN, timeout \in 1..MaxTimeout :
          ExecuteCall(target, hide, timeout) /\ UNCHANGED execOthers
    \/ ExecuteSuppress /\ UNCHANGED execOthers
    \/ \E ok \in BOOLEAN : ExecuteSend(ok) /\ UNCHANGED execOthers
    \/ \E code \in {0, 1} : ShellRun(code) /\ UNCHANGED execOthers
    \/ \E ok \in BOOLEAN : ExecutePoll(ok) /\ UNCHANGED execOthers
    \/ ExecuteWake /\ UNCHANGED execOthers
    \/ ExecuteRestore /\ UNCHANGED execOthers
SpecExec == InitExec /\ [][NextExec]_vars

facadeOthers == <<parseVars, markerVars, ctlVars, idleVars, execVars, runVars, hookVars, addVars, subtaskVars, bashVars, searchVars, raceVars>>

InitFacade ==
    ParkedParseVars /\ ParkedMarkerVars /\ ParkedCtlVars /\ ParkedIdleVars /\ ParkedExecVars
    /\ InitFacadeVars /\ ParkedRunVars /\ ParkedHookVars /\ ParkedAddVars /\ ParkedSubtaskVars /\ ParkedBashVars /\ ParkedSearchVars /\ ParkedRaceVars
NextFacade ==
    \/ \E session \in {None, <<"test-session">>}, ok \in BOOLEAN :
          CliInit(session, ok) /\ UNCHANGED facadeOthers
    \/ \E ok \in BOOLEAN : CliOperation(ok) /\ UNCHANGED facadeOthers
    \/ CliCleanup /\ UNCHANGED facadeOthers
    \/ EnvChange /\ UNCHANGED facadeOthers
    \/ SessionsChange /\ UNCHANGED facadeOthers
SpecFacade == InitFacade /\ [][NextFacade]_vars

runOthers == <<parseVars, markerVars, ctlVars, idleVars, execVars, facadeVars, hookVars, addVars, subtaskVars, bashVars, searchVars, raceVars>>

InitRoundTrip ==
    ParkedParseVars /\ ParkedMarkerVars /\ ParkedCtlVars /\ ParkedIdleVars /\ ParkedExecVars
    /\ ParkedFacadeVars /\ InitRunVars /\ ParkedHookVars /\ ParkedAddVars /\ ParkedSubtaskVars /\ ParkedBashVars /\ ParkedSearchVars /\ ParkedRaceVars
NextRoundTrip ==
    \/ RunAndCapture /\ UNCHANGED runOthers
    \/ ParseCapture /\ UNCHANGED runOthers
SpecRoundTrip == InitRoundTrip /\ [][NextRoundTrip]_vars

hookOthers == <<parseVars, markerVars, ctlVars, idleVars, execVars, facadeVars, runVars, addVars, subtaskVars, bashVars, searchVars, raceVars>>

InitHook ==
    ParkedParseVars /\ ParkedMarkerVars /\ ParkedCtlVars /\ ParkedIdleVars /\ ParkedExecVars
    /\ ParkedFacadeVars /\ ParkedRunVars /\ InitHookVars /\ ParkedAddVars /\ ParkedSubtaskVars /\ ParkedBashVars /\ ParkedSearchVars /\ ParkedRaceVars
NextHook == \E command \in HookCommands : CheckCommand(command) /\ UNCHANGED hookOthers
SpecHook == InitHook /\ [][NextHook]_vars

\* The git add hook, with the git commit hook running beside it.
addOthers == <<parseVars, markerVars, ctlVars, idleVars, execVars, facadeVars, runVars, subtaskVars, bashVars, searchVars, raceVars>>

InitGitAdd ==
    ParkedParseVars /\ ParkedMarkerVars /\ ParkedCtlVars /\ ParkedIdleVars /\ ParkedExecVars
    /\ ParkedFacadeVars /\ ParkedRunVars /\ InitHookVars /\ InitAddVars /\ ParkedSubtaskVars /\ ParkedBashVars /\ ParkedSearchVars /\ ParkedRaceVars
NextGitAdd ==
    \/ \E command \in AddCommands : CheckAdd(command) /\ UNCHANGED <<addOthers, hookVars>>
    \/ CheckCommand(<<"git", " ", "commit">>) /\ UNCHANGED <<addOthers, addVars, subtaskVars, bashVars, searchVars, raceVars>>
SpecGitAdd == InitGitAdd /\ [][NextGitAdd]_vars

\* The subtask flag hooks and the file-size hook.
subtaskOthers == <<parseVars, markerVars, ctlVars, idleVars, execVars, facadeVars, runVars, hookVars, addVars, bashVars, searchVars, raceVars>>

InitSubtask ==
    ParkedParseVars /\ ParkedMarkerVars /\ ParkedCtlVars /\ ParkedIdleVars /\ ParkedExecVars
    /\ ParkedFacadeVars /\ ParkedRunVars /\ ParkedHookVars /\ ParkedAddVars /\ InitSubtaskVars /\ ParkedBashVars /\ ParkedSearchVars /\ ParkedRaceVars
NextSubtask ==
    \/ Pretask /\ UNCHANGED subtaskOthers
    \/ Posttask /\ UNCHANGED subtaskOthers
    \/ \E kind \in FileKinds, line_count \in LineCounts :
          FileSizeHook(kind, line_count) /\ UNCHANGED subtaskOthers
SpecSubtask == InitSubtask /\ [][NextSubtask]_vars

\* The unified bash hook on a sequence of tool calls.
bashOthers == <<parseVars, markerVars, ctlVars, idleVars, execVars, facadeVars, runVars, subtaskVars, searchVars, raceVars>>

InitBash ==
    ParkedParseVars /\ ParkedMarkerVars /\ ParkedCtlVars /\ ParkedIdleVars /\ ParkedExecVars
    /\ ParkedFacadeVars /\ ParkedRunVars /\ InitHookVars /\ InitAddVars /\ ParkedSubtaskVars
    /\ InitBashVars /\ ParkedSearchVars /\ ParkedRaceVars
NextBash ==
    \E tool_name \in ToolNames, command \in BashCommands, checkout \in BOOLEAN :
        BashHook(tool_name, command, checkout) /\ UNCHANGED <<bashOthers, hook, addhook>>
SpecBash == InitBash /\ [][NextBash]_vars

\* One search of one file.
searchOthers == <<parseVars, markerVars, ctlVars, idleVars, execVars, facadeVars, runVars, hookVars, addVars, subtaskVars, bashVars, raceVars>>

InitSearch ==
    ParkedParseVars /\ ParkedMarkerVars /\ ParkedCtlVars /\ ParkedIdleVars /\ ParkedExecVars
    /\ ParkedFacadeVars /\ ParkedRunVars /\ ParkedHookVars /\ ParkedAddVars /\ ParkedSubtaskVars
    /\ ParkedBashVars /\ InitSearchVars /\ ParkedRaceVars
NextSearch == SearchCall /\ UNCHANGED searchOthers
SpecSearch == InitSearch /\ [][NextSearch]_vars

\* Concurrent git commit checks.
raceOthers == <<parseVars, markerVars, ctlVars, idleVars, execVars, facadeVars, runVars, subtaskVars, bashVars, searchVars>>

InitCommitRace ==
    ParkedParseVars /\ ParkedMarkerVars /\ ParkedCtlVars /\ ParkedIdleVars /\ ParkedExecVars
    /\ ParkedFacadeVars /\ ParkedRunVars /\ ParkedHookVars /\ ParkedAddVars /\ ParkedSubtaskVars
    /\ ParkedBashVars /\ ParkedSearchVars /\ InitRaceVars
NextCommitRace ==
    \/ \E p \in Procs : CommitRemove(p) /\ UNCHANGED <<raceOthers, hook, addVars>>
    \/ \E p \in Procs : CommitCreate(p) /\ UNCHANGED <<raceOthers, hook, addVars>>
SpecCommitRace == InitCommitRace /\ [][NextCommitRace]_vars

\* Concurrent git add checks for one directory.
InitAddRace == InitCommitRace
NextAddRace ==
    \/ \E p \in Procs : AddRemove(p) /\ UNCHANGED <<raceOthers, hookVars, addhook>>
    \/ \E p \in Procs : AddCreate(p) /\ UNCHANGED <<raceOthers, hookVars, addhook>>
SpecAddRace == InitAddRace /\ [][NextAddRace]_vars

(***************************************************************************)
(* Claims about the marker protocol                                        *)
(***************************************************************************)
\* The end marker parse_marked_output uses: the last occurrence of end + ":".
UsedEndIdx == RFind(captured, EndMarker \o <<":">>)

\* What follows the ":" of the used end marker, up to the end of its line.
UsedEndTrailer == FirstLine(SliceFrom(captured, UsedEndIdx + Len(EndMarker) + 1))

\* C3: parse returns an exit code other than -1 only when both markers were
\* found in order (the start marker wholly before the end marker that is
\* used) and that end marker is followed by ":" and a valid integer.
C3_ExitCodeOnlyWhenMarkersInOrder ==
    (parse_pc = "returned" /\ parse_result.exit_code # -1) =>
        /\ Find(captured, StartMarker) # -1
        /\ UsedEndIdx # -1
        /\ Find(captured, StartMarker) + Len(StartMarker) <= UsedEndIdx
        /\ IsInt(UsedEndTrailer)

\* C4: when the start marker is not in the captured text but the end marker
\* with its ":<exit code>" trailer is, parse recovers the exit code from the
\* trailer.
C4_EndAnchoredWhenStartScrolledOff ==
    (/\ parse_pc = "returned"
     /\ ~Contains(captured, StartMarker)
     /\ UsedEndIdx # -1
     /\ IsInt(UsedEndTrailer)) =>
        parse_result.exit_code = IntValue(UsedEndTrailer)

\* C5: every generated marker pair differs, in its start and in its end
\* marker, from every pair generated earlier in the process.
C5_MarkersNeverRepeat ==
    \A i, j \in 1..Len(issued) :
        i < j => /\ issued[i].start # issued[j].start
                 /\ issued[i].end # issued[j].end

(***************************************************************************)
(* Claims about the local window controller                                *)
(***************************************************************************)
\* C6: kill of the target the caller's own process runs in is rejected with
\* an error, issues no tmux command and leaves that target alive.
C6_SelfKillRejected ==
    (last_op.op = "kill_window" /\ last_op.denoted = own_id) =>
        /\ last_op.raised
        /\ last_op.cmds = <<>>
        /\ Alive(own_id)

\* The forms under which a listed window can be named.
ListedForms(w) ==
    {IdText(w.id), Str(w.index), w.name,
     Qualified(Session, w.name), Qualified(Session, Str(w.index))}

\* C7: resolve returns no target for an identifier that matches no entry of
\* the current listing, and never returns a target that is not in the listing.
C7_ResolveFailsForUnlisted ==
    last_op.op = "resolve" =>
        /\ (\A w \in windows : last_op.arg \notin ListedForms(w)) => last_op.ret = None
        /\ last_op.ret # None => last_op.denoted # NoWindow

C9_TrueOnlyAfterContentUnchanged ==
    (wfi.pc = "done" /\ wfi.ret) =>
        wfi.ret_time - wfi.captured_change >= wfi.idle_time

\* C9 as amended: wait_for_idle returns true only when the content it
\* captured has been the same at every poll for at least idle_time, that is
\* not before P + idle_time when P is the time of the last capture that
\* differed from the capture before it.
C9_TrueOnlyAfterCapturesUnchanged ==
    (wfi.pc = "done" /\ wfi.ret) =>
        wfi.ret_time - wfi.same_since >= wfi.idle_time

\* wait_for_idle has returned true after it saw the content change in mid-call.
C9_Witness ==
    /\ wfi.pc = "done"
    /\ wfi.ret
    /\ wfi.same_since > wfi.start_time
    /\ wfi.polls >= 3

\* C10: called with a timeout on content that never stabilizes, the wait
\* ends with false once the timeout has elapsed: the loop is not entered
\* again after more than timeout has passed since the start.
C10_TimeoutEndsWait ==
    (/\ wfi.pc = "capture"
     /\ wfi.timeout # NoTimeout
     /\ wfi.unstable
     /\ wfi.polls >= 2) =>
        wfi.checked_at - wfi.start_time <= wfi.timeout

(***************************************************************************)
(* Claims about execute()                                                  *)
(***************************************************************************)
\* C1: one execute() call, in either transmission mode, transmits the
\* wrapped command exactly once, so that its effect happens exactly once
\* when it has run and never more than once; a timed-out call is returned
\* as it is, without a second transmission.
C1_TransmitsExactlyOnce ==
    /\ ex.sent <= 1
    /\ \A c \in 1..MaxExecs : shell.ran[c] <= 1
    /\ (ex.pc = "done" /\ ex.outcome \in {"success", "timeout"}) => ex.sent = 1
    /\ (ex.pc = "done" /\ ex.outcome = "success") => shell.ran[ex.call] = 1
    /\ (ex.pc = "done" /\ ex.outcome = "timeout") =>
           shell.ran[ex.call] + Cardinality({i \in 1..Len(shell.queue) : shell.queue[i] = ex.call}) = 1

\* A hidden execute() has timed out and returned after one transmission.
C1_Witness ==
    /\ ex.pc = "done"
    /\ ex.hide
    /\ ex.outcome = "timeout"
    /\ ex.exit_code = -1
    /\ ex.sent = 1

C11_TimeoutReturnedAsData ==
    /\ (ex.outcome = "timeout") =>
           /\ ex.pc \in {"restore", "done"}
           /\ ex.exit_code = -1
           /\ ex.captures >= 1
           /\ ex.output = ex.captures
           /\ now - ex.start_time >= ex.timeout
    /\ (ex.pc = "raised") => ex.outcome \in {"exception", "no target"}
    /\ (ex.outcome = "exception") => ex.failed

\* execute() has returned a timeout result made from its second capture,
\* while the command is still pending in the shell.
C11_Witness ==
    /\ ex.pc = "done"
    /\ ex.outcome = "timeout"
    /\ ex.exit_code = -1
    /\ ex.captures = 2
    /\ ex.output = 2
    /\ shell.ran[ex.call] = 0

(***************************************************************************)
(* Claims about the controller's targets                                   *)
(***************************************************************************)
\* The operations that need a target.
TargetOps == {"send_keys_to_window", "capture_window", "interrupt", "escape", "kill_window"}

\* C12: an operation that needs a target, called without one while the
\* controller has no current target, raises before it makes any call of
\* the tmux command runner.
C12_NoTargetRaisesBeforeAnyCommand ==
    [][(/\ target_window = None
        /\ last_op' # last_op
        /\ last_op'.op \in TargetOps
        /\ last_op'.arg = None)
       => (last_op'.raised /\ last_op'.cmds = <<>>)]_vars

\* C15: a cleanup in local mode kills no window whose name lacks the
\* prefix "tmux-cli-": every such window is still there after the step.
C15_CleanupKillsOnlyPrefixed ==
    [][(last_op'.op = "cleanup_all_windows" /\ last_op' # last_op)
       => \A w \in windows : ~StartsWith(w.name, Prefix) => w \in windows']_vars

\* A cleanup has killed two windows and has left the windows of the user.
C15_Witness ==
    /\ last_op.op = "cleanup_all_windows"
    /\ Len(last_op.cmds) = 3
    /\ Cardinality(windows) >= 2
    /\ \A w \in windows : ~StartsWith(w.name, Prefix)

C17_CreateSetsTargetOnlyOnSuccess ==
    [][(last_op'.op = "create_window" /\ last_op' # last_op)
       => IF last_op'.ret # None
          THEN /\ target_window' = last_op'.ret
               /\ \E w \in windows' \ windows :
                     /\ w.name = last_op'.ret
                     /\ w.id = last_op'.denoted
                     /\ StartsWith(w.name, Prefix)
          ELSE /\ target_window' = target_window
               /\ windows' = windows]_vars

\* A create_window has failed after one that succeeded: the current target
\* is still the window made before.
C17_Witness ==
    /\ last_op.op = "create_window"
    /\ last_op.ret = None
    /\ target_window # None
    /\ TmuxFindWindow(resolve_window_identifier(target_window)) # NoWindow

(***************************************************************************)
(* Claims about the facade and the remote backend                          *)
(***************************************************************************)
\* C13: every ensure-session step of the remote backend, the one in the
\* constructor included, issues no new-session command when a session of
\* the configured name exists and exactly one when it does not.
C13_SessionCreatedOnlyWhenAbsent ==
    (remote.ensures > 0) =>
        /\ remote.existed => remote.new_sessions = 0
        /\ ~remote.existed => remote.new_sessions = 1

\* A later ensure-session step has found the session and reused it.
C13_Witness ==
    /\ remote.ensures >= 2
    /\ remote.existed
    /\ remote.new_sessions = 0
    /\ remote.session_name \in sessions

\* C14: the facade takes its backend from the TMUX signal once, in the
\* constructor; afterwards its mode is the one chosen then and every
\* operation goes to that backend, whatever the environment has become.
C14_BackendChosenOnce ==
    cli.constructed =>
        /\ cli.mode = (IF cli.env_at_init THEN "local" ELSE "remote")
        /\ cli.in_tmux = cli.env_at_init
        /\ cli.dispatched \in {"none", cli.mode}

\* An operation has gone to the local backend although TMUX is no longer set.
C14_Witness ==
    /\ cli.constructed
    /\ cli.mode = "local"
    /\ ~env_tmux
    /\ cli.dispatched = "local"
    /\ cli.ops >= 2

(***************************************************************************)
(* Claims about the round trip                                             *)
(***************************************************************************)
EndsWith(s, suffix) ==
    Len(suffix) <= Len(s) /\ SubSeq(s, Len(s) - Len(suffix) + 1, Len(s)) = suffix

\* C18: when the command's own output holds text like the end marker
\* (the marker followed by a colon), the parse still takes the exit code
\* from the real end marker, and the output it returns is not cut short:
\* it ends with everything the command printed, that text included.
C18_MarkerLikeOutputKept ==
    (run.pc = "parsed" /\ Contains(run.output, EndMarker \o <<":">>)) =>
        /\ run.result.exit_code = run.exit_code
        /\ EndsWith(run.result.output, RStripNewlines(run.output))
        /\ Contains(run.result.output, EndMarker \o <<":">>)

\* A command that printed the end marker with a colon and then a line,
\* and exited with 127, has been parsed from a pane without echo.
C18_Witness ==
    /\ run.pc = "parsed"
    /\ ~run.echo
    /\ run.output = <<"E", ":", "x">>
    /\ run.exit_code = 127
    /\ run.result = [output |-> <<"E", ":", "x">>, exit_code |-> 127]

\* C19: parsing the text captured after the wrapped command has run gives
\* back the command's output, but for the newlines at its end, and its
\* exit code.
C19_RoundTrip ==
    (run.pc = "parsed") =>
        /\ run.result.output = RStripNewlines(run.output)
        /\ run.result.exit_code = run.exit_code

(***************************************************************************)
(* Claims about the git commit hook                                        *)
(***************************************************************************)
\* C20: starting without the flag file, the git commit commands checked
\* one after another are blocked and allowed in turn: the flag file is
\* there exactly after an odd number of them, the 1st, 3rd, 5th, ... is
\* blocked and the 2nd, 4th, ... allowed, and a command that is not a git
\* commit is never blocked and does not change the turn.
C20_CommitAttemptsAlternate ==
    /\ flag_file <=> (hook.commits % 2 = 1)
    /\ (hook.calls > 0 /\ IsGitCommit(hook.command)) =>
           (hook.should_block <=> (hook.commits % 2 = 1))
    /\ (hook.calls > 0 /\ ~IsGitCommit(hook.command)) => ~hook.should_block

\* The third git commit command has been blocked, after other commands
\* were checked in between.
C20_Witness ==
    /\ hook.commits = 3
    /\ hook.calls = 5
    /\ IsGitCommit(hook.command)
    /\ hook.command = <<"git", "\t", "commit">>
    /\ hook.should_block
    /\ flag_file

(***************************************************************************)
(* C21: git add of a directory                                             *)
(***************************************************************************)
LastStaged == StagedDirectory(addhook.command)

\* C21 as stated: for every directory d, the attempts git add d/ are
\* blocked, allowed, blocked, ... in turn: an attempt is blocked exactly
\* when it is an odd one for d.
C21_EveryDirectoryAlternates ==
    (addhook.calls > 0 /\ LastStaged # None)
        => (addhook.should_block <=> LastStaged \in addhook.odd)

\* A directory text the hook takes as a directory staging: not empty, not
\* starting with a dash, without a star, and d/ none of the hard-blocked
\* forms.
PlainDirectory(d) ==
    /\ d # <<>>
    /\ d[1] # "-"
    /\ "*" \notin Pieces(d)
    /\ ~DangerousWord(d \o <<"/">>)

\* C21: for a directory d the hook takes as a directory staging, an attempt
\* git add d/ is blocked exactly when it is an odd one for d, and the flag
\* file of d exists exactly after an odd number of attempts for d, whatever
\* was attempted for other directories and whatever the git commit flag is.
C21_PlainDirectoryAlternates ==
    /\ (addhook.calls > 0 /\ LastStaged # None /\ PlainDirectory(LastStaged[2]))
          => (addhook.should_block <=> LastStaged \in addhook.odd)
    /\ \A arg \in AddArgs :
          PlainDirectory(RStripSlashes(arg))
              => (AddFlagName(RStripSlashes(arg)) \in add_flags
                      <=> <<"dir", RStripSlashes(arg)>> \in addhook.odd)

\* The second attempt for s is allowed while l is half way and the git
\* commit flag exists.
C21_Witness ==
    /\ addhook.command = <<"git", " ", "add", " ", "s", "/">>
    /\ ~addhook.should_block
    /\ addhook.calls >= 3
    /\ <<"dir", <<"l">>>> \in addhook.odd
    /\ flag_file

(***************************************************************************)
(* C22, C27: the subtask flag and the file-size limits                     *)
(***************************************************************************)
\* C22: a text file is blocked over 500 lines exactly when no subtask flag
\* exists at the call and over 10,000 lines when one exists; the flag exists
\* after a pretask hook until the next posttask hook and is absent after a
\* posttask hook, so the limits follow the hooks; a path that is no regular
\* text file is judged the same with and without the flag.
C22_LimitFollowsFlag ==
    /\ last_flag_hook = "pre" => subtask_flag
    /\ last_flag_hook = "post" => ~subtask_flag
    /\ fsz.called =>
          /\ fsz.after = "pre" => fsz.flag
          /\ fsz.after = "post" => ~fsz.flag
          /\ fsz.kind = "text" =>
                (fsz.should_block <=>
                    fsz.line_count > (IF fsz.flag THEN SubAgentLimit ELSE MainAgentLimit))
          /\ fsz.kind # "text" => (fsz.should_block <=> fsz.kind = "symlink")

\* A 501-line text file is blocked after the posttask hook of a subtask
\* during which it would have been approved.
C22_Witness ==
    /\ fsz.called
    /\ fsz.kind = "text"
    /\ fsz.line_count = MainAgentLimit + 1
    /\ fsz.after = "post"
    /\ fsz.should_block

\* C27: while at least one subtask is in progress the subtask flag exists,
\* and a text file read then is judged against the 10,000-line limit.
C27_FlagWhileSubtaskRuns ==
    /\ running > 0 => subtask_flag
    /\ (fsz.called /\ fsz.running > 0 /\ fsz.kind = "text")
          => (fsz.should_block <=> fsz.line_count > SubAgentLimit)

(***************************************************************************)
(* C23: the unified bash hook                                              *)
(***************************************************************************)
\* C23: a Bash command is blocked exactly when at least one of the five
\* checks returned should_block for it, and approved exactly when none did;
\* the rm and env-file checks recorded are the ones the command calls for.
C23_BlocksIffSomeCheckBlocks ==
    (bash.called /\ bash.tool_name = "Bash") =>
        /\ bash.ran
        /\ bash.decision = "block" <=> (\E i \in 1..Len(Checks) : bash.verdicts[i])
        /\ bash.decision = "approve" <=> (\A i \in 1..Len(Checks) : ~bash.verdicts[i])
        /\ bash.verdicts[1] = check_rm_command(bash.command)
        /\ bash.verdicts[5] = check_env_file_access(bash.command)

\* git commit -a is blocked by the git add check alone: the rm check
\* allows it and the git commit check finds its flag and allows it.
C23_Witness ==
    /\ bash.called
    /\ bash.tool_name = "Bash"
    /\ bash.command = <<"git", " ", "commit", " ", "-", "a">>
    /\ bash.verdicts = <<FALSE, TRUE, FALSE, FALSE, FALSE>>
    /\ bash.decision = "block"

(***************************************************************************)
(* C24: the keyword search                                                 *)
(***************************************************************************)
\* C24: on a readable file the search returns matches = true exactly when
\* every keyword of the list occurs, letter case aside, somewhere in the
\* file.
C24_MatchesIffEveryKeywordOccurs ==
    (search.called /\ search.readable) =>
        (search.matches <=>
            \A i \in 1..Len(search.keywords) :
                Contains(LowerText(search.text), LowerText(search.keywords[i])))

(***************************************************************************)
(* C25, C26: the flag files under concurrent hook invocations              *)
(***************************************************************************)
\* C25: under every interleaving of git commit checks the allowed attempts
\* are at most as many as the blocked ones, and a flag that exists belongs
\* to a blocked attempt no allowed attempt has consumed.
C25_AllowedAtMostBlocked ==
    /\ race.allowed <= race.blocked
    /\ flag_file => race.allowed < race.blocked

\* Two checks find no flag side by side and both block; one later check is
\* allowed.
C25_Witness ==
    /\ race.blocked = 2
    /\ race.allowed = 1
    /\ ~flag_file
    /\ \A p \in Procs : race.pc[p] = "idle"

\* C26: under every interleaving of git add checks for one directory the
\* allowed attempts are at most as many as the blocked ones.
C26_AllowedAtMostBlocked == race.allowed <= race.blocked

(***************************************************************************)
(* C28, C29, C30: the controller's target and the windows it kills         *)
(***************************************************************************)
\* C28: after a kill_window or a cleanup_all_windows the current target
\* names none of the windows the call has killed.
C28_TargetNeverNamesKilledWindow ==
    [][(last_op' # last_op /\ last_op'.op \in {"kill_window", "cleanup_all_windows"})
       => \/ target_window' = None
          \/ \A w \in windows \ windows' :
                TmuxFindWindow(resolve_window_identifier(target_window')) # w.id]_vars

\* C29: send_keys_to_window, capture_window and kill_window issue no tmux
\* command when resolve_window_identifier returns nothing for their target.
C29_NoCommandOnUnresolvedTarget ==
    [][(last_op' # last_op
        /\ last_op'.op \in {"send_keys_to_window", "capture_window", "kill_window"})
       => LET target == IF last_op'.arg # None THEN last_op'.arg ELSE target_window
          IN  (target # None /\ resolve_window_identifier(target) = None)
                  => last_op'.cmds = <<>>]_vars

\* C30: the caller's own window is still there after cleanup_all_windows.
C30_CleanupSparesOwnWindow ==
    [][(last_op' # last_op /\ last_op'.op = "cleanup_all_windows")
       => (Alive(own_id) => \E w \in windows' : w.id = own_id)]_vars

====
